---------------------------- MODULE Spec2Model ----------------------------
(***************************************************************************)
(* Two-tier hybrid key-value storage of @aligent/appbuilder-util-lib       *)
(* (aio-persistent-state): a fast TTL-bound tier (Adobe I/O State) in      *)
(* front of a durable tier (Adobe I/O Files for the string client, Adobe   *)
(* I/O Database for the document client).                                  *)
(*                                                                         *)
(* Strings and byte buffers are kept run-length encoded: a sequence of     *)
(* runs [u |-> unit, n |-> count], the unit (a sequence of code points, or *)
(* of bytes) repeated n times.  'x'.repeat(1048577) is one run.            *)
(***************************************************************************)
EXTENDS Integers, Sequences, FiniteSets, TLC

(***************************************************************************)
(* constants.ts                                                            *)
(***************************************************************************)
DEFAULT_ONE_YEAR_TTL_SECONDS == 31536000

MAX_KEY_SIZE == 1024

MAX_STATE_VALUE_SIZE == 1024 * 1024

(***************************************************************************)
(* Strings.                                                                *)
(***************************************************************************)
Lit(cps) == <<[u |-> cps, n |-> 1]>>

Repeat(cp, count) == IF count = 0 THEN <<>> ELSE <<[u |-> <<cp>>, n |-> count]>>

RECURSIVE StrLength(_)
StrLength(s) ==
    IF s = <<>> THEN 0 ELSE Len(s[1].u) * s[1].n + StrLength(Tail(s))

\* UTF-8 encoding of one code point (the BMP is enough for the values used).
Utf8Bytes(cp) ==
    IF cp < 128 THEN <<cp>>
    ELSE IF cp < 2048 THEN <<192 + (cp \div 64), 128 + (cp % 64)>>
    ELSE <<224 + (cp \div 4096), 128 + ((cp \div 64) % 64), 128 + (cp % 64)>>

RECURSIVE Utf8Unit(_)
Utf8Unit(cps) ==
    IF cps = <<>> THEN <<>> ELSE Utf8Bytes(Head(cps)) \o Utf8Unit(Tail(cps))

\* Buffer.from(string): the UTF-8 bytes of the string.
BufferFrom(s) == [i \in DOMAIN s |-> [u |-> Utf8Unit(s[i].u), n |-> s[i].n]]

RECURSIVE Utf8DecodeUnit(_)
Utf8DecodeUnit(bs) ==
    IF bs = <<>> THEN <<>>
    ELSE IF bs[1] < 128 THEN <<bs[1]>> \o Utf8DecodeUnit(Tail(bs))
    ELSE IF bs[1] < 224
         THEN <<(bs[1] - 192) * 64 + (bs[2] - 128)>>
              \o Utf8DecodeUnit(SubSeq(bs, 3, Len(bs)))
    ELSE <<(bs[1] - 224) * 4096 + (bs[2] - 128) * 64 + (bs[3] - 128)>>
         \o Utf8DecodeUnit(SubSeq(bs, 4, Len(bs)))

\* buffer.toString(): the string the UTF-8 bytes decode to.
BufferToString(buf) ==
    [i \in DOMAIN buf |-> [u |-> Utf8DecodeUnit(buf[i].u), n |-> buf[i].n]]

\* Buffer.byteLength(string): the number of UTF-8 bytes of the string.
ByteLength(s) == StrLength(BufferFrom(s))

(***************************************************************************)
(* base64url.encode and encodeKey (utils.ts).                              *)
(***************************************************************************)
\* The character of a 6-bit value in the URL-safe alphabet A-Z a-z 0-9 - _
Base64UrlChar(v) ==
    IF v < 26 THEN 65 + v
    ELSE IF v < 52 THEN 97 + (v - 26)
    ELSE IF v < 62 THEN 48 + (v - 52)
    ELSE IF v = 62 THEN 45 ELSE 95

Enc3(a, b, c) ==
    << Base64UrlChar(a \div 4),
       Base64UrlChar((a % 4) * 16 + (b \div 16)),
       Base64UrlChar((b % 16) * 4 + (c \div 64)),
       Base64UrlChar(c % 64) >>

\* Trailing groups of two bytes and of one byte; base64url drops the padding.
Enc2(a, b) ==
    << Base64UrlChar(a \div 4),
       Base64UrlChar((a % 4) * 16 + (b \div 16)),
       Base64UrlChar((b % 16) * 4) >>

Enc1(a) == << Base64UrlChar(a \div 4), Base64UrlChar((a % 4) * 16) >>

\* The buffer without its first byte.
DropByte(buf) ==
    LET h == Head(buf)
        rest == IF h.n = 1 THEN Tail(buf)
                ELSE <<[u |-> h.u, n |-> h.n - 1]>> \o Tail(buf)
    IN  IF Len(h.u) = 1 THEN rest
        ELSE <<[u |-> Tail(h.u), n |-> 1]>> \o rest

RECURSIVE Base64UrlBytes(_)
Base64UrlBytes(buf) ==
    IF buf = <<>> THEN <<>>
    ELSE LET h == Head(buf) IN
      IF Len(h.u) = 1 /\ h.n >= 3
      THEN \* whole groups of one repeated byte encode to one repeated unit
           <<[u |-> Enc3(h.u[1], h.u[1], h.u[1]), n |-> h.n \div 3]>>
           \o Base64UrlBytes(IF h.n % 3 = 0 THEN Tail(buf)
                             ELSE <<[u |-> h.u, n |-> h.n % 3]>> \o Tail(buf))
      ELSE LET b1 == h.u[1]
               r1 == DropByte(buf)
           IN IF r1 = <<>> THEN <<[u |-> Enc1(b1), n |-> 1]>>
              ELSE LET b2 == Head(r1).u[1]
                       r2 == DropByte(r1)
                   IN IF r2 = <<>> THEN <<[u |-> Enc2(b1, b2), n |-> 1]>>
                      ELSE <<[u |-> Enc3(b1, b2, Head(r2).u[1]), n |-> 1]>>
                           \o Base64UrlBytes(DropByte(r2))

base64url_encode(key) == Base64UrlBytes(BufferFrom(key))

KeyTooLong == "Error: Encoded key exceeds maximum size"

\* A faulty variant of encodeKey: a key of MAX_KEY_SIZE characters is refused.
encodeKey_inclusive(key) ==
    LET encodedKey == base64url_encode(key)
    IN  IF StrLength(encodedKey) >= MAX_KEY_SIZE
        THEN [threw |-> TRUE, error |-> KeyTooLong]
        ELSE [threw |-> FALSE, value |-> encodedKey]

\* encodeKey: the encoded key, or the error it throws.
encodeKey(key) ==
    LET encodedKey == base64url_encode(key)
    IN  IF StrLength(encodedKey) > MAX_KEY_SIZE
        THEN [threw |-> TRUE, error |-> KeyTooLong]
        ELSE [threw |-> FALSE, value |-> encodedKey]

(***************************************************************************)
(* JSON.stringify / JSON.parse for the documents the document client       *)
(* stores: an object is a sequence of fields [k |-> name, v |-> string] in *)
(* insertion order.  The JSON text is the string {"k":"v","k2":"v2"}.      *)
(***************************************************************************)
LBrace == [u |-> <<123>>, n |-> 1]
RBrace == [u |-> <<125>>, n |-> 1]
Quote == [u |-> <<34>>, n |-> 1]
Colon == [u |-> <<58>>, n |-> 1]
Comma == [u |-> <<44>>, n |-> 1]

JSON_field(f) == <<Quote>> \o f.k \o <<Quote, Colon, Quote>> \o f.v \o <<Quote>>

RECURSIVE JSON_fields(_)
JSON_fields(doc) ==
    IF doc = <<>> THEN <<>>
    ELSE IF Len(doc) = 1 THEN JSON_field(doc[1])
    ELSE JSON_field(doc[1]) \o <<Comma>> \o JSON_fields(Tail(doc))

JSON_stringify(doc) == <<LBrace>> \o JSON_fields(doc) \o <<RBrace>>

\* The index of the first quote run of s at or after i (0 when there is none).
RECURSIVE NextQuote(_, _)
NextQuote(s, i) ==
    IF i > Len(s) THEN 0 ELSE IF s[i] = Quote THEN i ELSE NextQuote(s, i + 1)

\* Parses the fields of s from index i on; <<>> stands for a SyntaxError, a
\* one-element sequence holds the parsed fields.
RECURSIVE ParseFields(_, _, _)
ParseFields(s, i, acc) ==
    IF i + 4 > Len(s) \/ s[i] # Quote THEN <<>>
    ELSE LET k2 == NextQuote(s, i + 1) IN
      IF k2 = 0 \/ k2 + 2 > Len(s) \/ s[k2 + 1] # Colon \/ s[k2 + 2] # Quote THEN <<>>
      ELSE LET v2 == NextQuote(s, k2 + 3) IN
        IF v2 = 0 \/ v2 + 1 > Len(s) THEN <<>>
        ELSE LET f == [k |-> SubSeq(s, i + 1, k2 - 1), v |-> SubSeq(s, k2 + 3, v2 - 1)]
             IN IF s[v2 + 1] = RBrace
                THEN IF v2 + 1 = Len(s) THEN <<Append(acc, f)>> ELSE <<>>
                ELSE IF s[v2 + 1] = Comma THEN ParseFields(s, v2 + 2, Append(acc, f))
                ELSE <<>>

\* JSON.parse(text): [ok |-> TRUE, value |-> object] or the SyntaxError thrown.
JSON_parse(s) ==
    IF Len(s) < 2 \/ s[1] # LBrace THEN [ok |-> FALSE, value |-> <<>>]
    ELSE IF Len(s) = 2
         THEN [ok |-> s[2] = RBrace, value |-> <<>>]
    ELSE LET r == ParseFields(s, 2, <<>>)
         IN  IF r = <<>> THEN [ok |-> FALSE, value |-> <<>>]
             ELSE [ok |-> TRUE, value |-> r[1]]

(***************************************************************************)
(* Object helpers used by the document client.                            *)
(***************************************************************************)
IdName == Lit(<<95, 105, 100>>)          \* the property name _id

HasField(doc, name) == \E i \in DOMAIN doc : doc[i].k = name

FieldOf(doc, name) == doc[CHOOSE i \in DOMAIN doc : doc[i].k = name].v

RECURSIVE WithoutField(_, _)
WithoutField(doc, name) ==
    IF doc = <<>> THEN <<>>
    ELSE IF Head(doc).k = name THEN WithoutField(Tail(doc), name)
    ELSE <<Head(doc)>> \o WithoutField(Tail(doc), name)

\* { ...base, ...data }: a property of data replaces the value of the same
\* property of base in place, new properties are appended.
RECURSIVE ObjectSpread(_, _)
ObjectSpread(base, data) ==
    IF data = <<>> THEN base
    ELSE LET f == Head(data)
             nb == IF HasField(base, f.k)
                   THEN [i \in DOMAIN base |->
                            IF base[i].k = f.k THEN f ELSE base[i]]
                   ELSE Append(base, f)
         IN ObjectSpread(nb, Tail(data))

(***************************************************************************)
(* Inputs: the keys, configurations and values the callers pass.           *)
(***************************************************************************)
Key_testKey == Lit(<<116, 101, 115, 116, 75, 101, 121>>)

\* 768 bytes encode to exactly 1024 characters, 769 bytes to 1026.
Key_a768 == Repeat(97, 768)

Key_a769 == Repeat(97, 769)

\* 'a'.repeat(1024), the key of the "should throw" tests
Key_a1024 == Repeat(97, 1024)

Val_empty == <<>>

\* The empty key ''
Key_empty == <<>>

Val_testValue == Lit(<<116, 101, 115, 116, 86, 97, 108, 117, 101>>)

\* 1,048,576 bytes: the largest value the fast tier holds
Val_atLimit == Repeat(120, 1024 * 1024)

\* 1,048,577 bytes in 1,048,576 characters: 'x'.repeat(1024 * 1024 - 1) + 'é'
Val_over == Repeat(120, 1024 * 1024 - 1) \o Lit(<<233>>)

\* 'b', a second value for callers that write concurrently
Val_other == Lit(<<98>>)

StringValues == {Val_empty, Val_testValue, Val_atLimit, Val_over}

PropValue == Lit(<<118, 97, 108, 117, 101>>)             \* the property name value

Doc(value) == <<[k |-> PropValue, v |-> value]>>

\* {"value":"..."} is 12 bytes longer than the string in it.
Doc_testValue == Doc(Val_testValue)

Doc_atLimit == Doc(Repeat(120, 1024 * 1024 - 12))

\* { value: 'x'.repeat(1024 * 1024 + 1) }, the large document of the tests
Doc_over == Doc(Repeat(120, 1024 * 1024 + 1))

Coll_books == Lit(<<98, 111, 111, 107, 115>>)

Id_123 == Lit(<<49, 50, 51>>)

Id_other == Lit(<<122>>)

\* Documents that carry an _id of their own: the configured one, another one.
Doc_sameId == <<[k |-> IdName, v |-> Id_123]>> \o Doc(Val_testValue)

Doc_ownId == <<[k |-> IdName, v |-> Id_other]>> \o Doc(Val_testValue)

\* A document with the configured _id whose JSON is 1,048,576 bytes without
\* the _id property and 12 bytes more with it.
Doc_sameIdAtLimit == <<[k |-> IdName, v |-> Id_123]>> \o Doc_atLimit

DocValues ==
    {Doc_testValue, Doc_atLimit, Doc_over, Doc_sameId, Doc_ownId, Doc_sameIdAtLimit}

Num(n) == [def |-> TRUE, n |-> n]

\* The value undefined, as a property value a caller wrote out: { ttl: undefined }
Undefined == [def |-> FALSE, n |-> 0]

\* A caller's config object; ttl is <<>> when the property is omitted.
Config(kind, key, ttl, coll, id) ==
    [kind |-> kind, key |-> key, ttl |-> ttl, dbCollection |-> coll, dbDocumentId |-> id]

FileConfigs ==
    { Config("file", Key_testKey, <<>>, <<>>, <<>>),
      Config("file", Key_a768, <<Num(60)>>, <<>>, <<>>),
      Config("file", Key_a769, <<>>, <<>>, <<>>),
      Config("file", Key_a1024, <<>>, <<>>, <<>>) }

DbConfigs ==
    { Config("db", Key_testKey, <<Num(60)>>, Coll_books, Id_123),
      Config("db", Key_a768, <<>>, Coll_books, Id_123),
      Config("db", Key_a769, <<Num(60)>>, Coll_books, Id_123),
      Config("db", Key_a1024, <<>>, Coll_books, Id_123) }

\* Configurations that differ in how ttl is given, and in the key.
TtlConfigs(kind, coll, id) ==
    { Config(kind, Key_testKey, ttl, coll, id) : ttl \in {<<>>, <<Undefined>>, <<Num(60)>>} }

KeyConfigs(kind, coll, id) ==
    { Config(kind, key, <<>>, coll, id) : key \in {Key_empty, Key_a768, Key_a769} }

(***************************************************************************)
(* State.                                                                  *)
(***************************************************************************)
VARIABLES
    client,       \* the client object a factory returned (NoClient before)
    ctor,         \* the factory call made: its config and how it ended
    libPromise,   \* the module-level cached promises of the store handles
    stateStore,   \* fast tier (Adobe I/O State): entries [key, value, ttl]
    filesStore,   \* durable blob tier (Adobe I/O Files): [path, data]
    dbStore,      \* durable document tier: [coll, doc], doc with its _id
    ops,          \* per caller: its client call running or last completed
    bg,           \* tier calls still in flight after their call rejected
    hist,         \* the calls and expiries completed before, oldest first
    env           \* the environment: callers, failures left, window of hist,
                  \* factory calls left

vars == <<client, ctor, libPromise, stateStore, filesStore, dbStore, ops, bg, hist, env>>

\* Store failures the environment injects in one behaviour of SpecFaults.
MaxFaults == 2

\* Completed calls and expiries that Spec keeps in hist.
Window == 2

Slots == {1, 2}

F_stateLib == "state-files.stateLibPromise"
F_filesLib == "state-files.filesLibPromise"
D_stateLib == "state-database.stateLibPromise"
D_dbLib == "state-database.dbLibPromise"
L_stateLib == "aio-persistent-state.stateLibPromise"
L_filesLib == "aio-persistent-state.filesLibPromise"
Libs == {F_stateLib, F_filesLib, D_stateLib, D_dbLib, L_stateLib, L_filesLib}

NoClient ==
    [kind |-> "none", config |-> Config("none", <<>>, <<>>, <<>>, <<>>),
     encodedKey |-> <<>>, filePath |-> <<>>]

OutNone == [t |-> "none", v |-> <<>>]
OutPending == [t |-> "pending", v |-> <<>>]
Returned(v) == [t |-> "return", v |-> v]
Thrown(err) == [t |-> "throw", v |-> <<err>>]

IdleOp ==
    [op |-> "none", arg |-> <<>>, pc |-> "idle", pend |-> {}, ev |-> <<>>,
     out |-> OutNone, got |-> OutNone, errs |-> 0, warns |-> 0, tmp |-> <<>>]

NewOp(op, arg) == [IdleOp EXCEPT !.op = op, !.arg = arg, !.out = OutPending]

ExpiryItem == [IdleOp EXCEPT !.op = "expire", !.pc = "done"]

\* The window of completed calls: the last env.window, oldest first.
Push(h, item) ==
    IF item.op = "none" \/ env.window = 0 THEN h
    ELSE IF Len(h) < env.window THEN Append(h, item) ELSE Append(Tail(h), item)

IsRunning(o) == o.out = OutPending

cur == ops[1]

Call(fn, args) == [e |-> "call", fn |-> fn, a |-> args]
Ret(fn, r) == [e |-> "ret", fn |-> fn, a |-> r]
Ok == <<"ok">>
Failed(err) == <<"throw", err>>

Log(o, event) == [o EXCEPT !.ev = Append(@, event)]

Issue(o, fn, args, pc) == [Log(o, Call(fn, args)) EXCEPT !.pc = pc]

\* The environment lets a store call fail.
InjectFault ==
    /\ env.faultsLeft > 0
    /\ env' = [env EXCEPT !.faultsLeft = @ - 1]

(***************************************************************************)
(* The stores, as the clients use them.                                    *)
(***************************************************************************)
StateEntry(key) == {x \in stateStore : x.key = key}

StatePut(key, value, ttl) ==
    (stateStore \ StateEntry(key)) \cup {[key |-> key, value |-> value, ttl |-> ttl]}

FileEntry(path) == {x \in filesStore : x.path = path}

\* A faulty variant of FilesWrite: an existing file is kept, the first write wins.
FilesWrite_keepFirst(path, value) ==
    IF FileEntry(path) # {} THEN filesStore
    ELSE filesStore \cup {[path |-> path, data |-> BufferFrom(value)]}

FilesWrite(path, value) ==
    (filesStore \ FileEntry(path)) \cup {[path |-> path, data |-> BufferFrom(value)]}

\* A faulty variant of DbMatch: the filter matches every document of the collection.
DbMatch_anyId(coll, id) == {x \in dbStore : x.coll = coll}

\* collection.findOne({ _id: id }): the documents of coll with that _id
DbMatch(coll, id) ==
    {x \in dbStore : x.coll = coll /\ HasField(x.doc, IdName) /\ FieldOf(x.doc, IdName) = id}

\* collection.replaceOne({ _id: id }, doc, { upsert: true }) is refused when
\* doc carries another _id than the filter: _id is immutable.
ReplaceOneRefused(id, doc) == FieldOf(doc, IdName) # id

ReplaceOne(coll, id, doc) ==
    (dbStore \ DbMatch(coll, id)) \cup {[coll |-> coll, doc |-> doc]}

(***************************************************************************)
(* getStateLib / getFilesLib / getDbLib:                                   *)
(*     promise ??= init().catch(err => { promise = undefined; throw err }) *)
(***************************************************************************)
\* A faulty variant of getLib: every call of the accessor starts an init().
getLib_uncached(cache, lib) == [cache EXCEPT ![lib] = "pending"]

\* The cache after a call of the accessor of lib.
getLib(cache, lib) ==
    IF cache[lib] = "undefined" THEN [cache EXCEPT ![lib] = "pending"] ELSE cache

\* The call's record after it called the accessor: an init() is logged when
\* this call started it.
CalledGetLib(o, lib) ==
    IF libPromise[lib] = "undefined" THEN Log(o, Call("init", <<lib>>)) ELSE o

\* A factory is called between two client calls, while the process has
\* factory calls left; the callers use the client it returns from then on.
MayCreate ==
    /\ env.clientsLeft > 0
    /\ \A s \in Slots : ~IsRunning(ops[s])
    /\ env' = [env EXCEPT !.clientsLeft = @ - 1]

\* Starting a call in slot s: the slot's previous call moves to the window.
Begin(s) ==
    /\ client.kind # "none"
    /\ s <= env.callers
    /\ ~IsRunning(ops[s])
    /\ hist' = Push(hist, ops[s])

(***************************************************************************)
(* createFileStorageClient (state-files.ts)                                *)
(***************************************************************************)
DotJson == Lit(<<46, 106, 115, 111, 110>>)

\* { ttl: DEFAULT_ONE_YEAR_TTL_SECONDS, ...config }
fullConfig(config) ==
    [config EXCEPT !.ttl = IF config.ttl = <<>>
                           THEN Num(DEFAULT_ONE_YEAR_TTL_SECONDS)
                           ELSE config.ttl[1]]

createFileStorageClient(config) ==
    /\ MayCreate
    /\ LET encodedKey == encodeKey(fullConfig(config).key)
       IN  IF encodedKey.threw
           THEN /\ ctor' = [config |-> config, outcome |-> "threw"]
                /\ UNCHANGED client
           ELSE /\ ctor' = [config |-> config, outcome |-> "returned"]
                /\ client' = [kind |-> "file", config |-> fullConfig(config),
                              encodedKey |-> encodedKey.value,
                              filePath |-> fullConfig(config).key \o DotJson]
    /\ ops' = [s \in Slots |-> IdleOp]
    /\ UNCHANGED <<libPromise, stateStore, filesStore, dbStore, bg, hist>>

\* exists(): return !!value, or the error get() threw
F_existsResult(got) ==
    IF got.t = "throw" THEN got
    ELSE Returned(<<got.v # <<>> /\ StrLength(got.v[1]) > 0>>)

\* The call ends with `out`, the outcome of get(), put() or delete(); exists()
\* awaits this.get() and converts what it returned.
F_finish(o, out) ==
    IF o.op = "exists"
    THEN [o EXCEPT !.pc = "done", !.got = out, !.out = F_existsResult(out)]
    ELSE [o EXCEPT !.pc = "done", !.out = out]

\* A faulty variant of F_get_catch: a missing file is rethrown like any error.
F_get_catch_rethrow(o, err) == F_finish([o EXCEPT !.errs = @ + 1], Thrown(err))

\* A faulty variant of F_get_catch: a failed fast-tier read falls back to the file.
F_get_catch_fallback(o, err) ==
    IF err = "StateGetError"
    THEN Issue(o, "filesLib.read", <<client.filePath>>, "get:filesLib.read")
    ELSE F_finish([o EXCEPT !.errs = @ + 1], Thrown(err))

\* get()'s catch block: log, return undefined for a missing file, else rethrow
F_get_catch(o, err) ==
    LET logged == [o EXCEPT !.errs = @ + 1]
    IN  IF err = "ERROR_FILE_NOT_EXISTS"
        THEN F_finish(logged, Returned(<<>>))
        ELSE F_finish(logged, Thrown(err))

\* A faulty variant of F_catch: a failed file write is followed by the cache write.
F_catch_cacheAnyway(o, err) ==
    IF err = "FilesWriteError"
    THEN Issue(o, "stateLib.put", <<client.encodedKey, o.arg[1], client.config.ttl>>,
               "put:stateLib.put")
    ELSE F_finish([o EXCEPT !.errs = @ + 1], Thrown(err))

\* A faulty variant of F_catch: the error is logged and not rethrown.
F_catch_swallow(o, err) == F_finish([o EXCEPT !.errs = @ + 1], Returned(<<>>))

\* the catch block of put() and of delete(): log and rethrow
F_catch(o, err) == F_finish([o EXCEPT !.errs = @ + 1], Thrown(err))

F_issueStateGet(o) ==
    Issue(o, "stateLib.get", <<client.encodedKey>>, "get:stateLib.get")

\* A faulty variant of F_issueFilesRead: the path is derived from the encoded key.
F_issueFilesRead_encodedPath(o) ==
    Issue(o, "filesLib.read", <<client.encodedKey \o DotJson>>, "get:filesLib.read")

F_issueFilesRead(o) ==
    Issue(o, "filesLib.read", <<client.filePath>>, "get:filesLib.read")

\* A faulty variant of F_issueFilesWrite: the cache write is started with it.
F_issueFilesWrite_withStatePut(o) ==
    Issue(Log(o, Call("stateLib.put", <<client.encodedKey, o.arg[1], client.config.ttl>>)),
          "filesLib.write", <<client.filePath, o.arg[1]>>, "put:filesLib.write")

F_issueFilesWrite(o) ==
    Issue(o, "filesLib.write", <<client.filePath, o.arg[1]>>, "put:filesLib.write")

F_issueStatePut(o, value, pc) ==
    Issue(o, "stateLib.put", <<client.encodedKey, value, client.config.ttl>>, pc)

\* A faulty variant of F_issueDeletes: the cached entry is left alone.
F_issueDeletes_filesOnly(o) ==
    [Log(o, Call("filesLib.delete", <<client.filePath>>))
       EXCEPT !.pc = "delete:Promise.all(deletes)", !.pend = {"filesLib.delete"}]

\* A faulty variant of F_issueDeletes: the file is left alone.
F_issueDeletes_stateOnly(o) ==
    [Log(o, Call("stateLib.delete", <<client.encodedKey>>))
       EXCEPT !.pc = "delete:Promise.all(deletes)", !.pend = {"stateLib.delete"}]

F_issueDeletes(o) ==
    [Log(Log(o, Call("stateLib.delete", <<client.encodedKey>>)),
         Call("filesLib.delete", <<client.filePath>>))
       EXCEPT !.pc = "delete:Promise.all(deletes)",
              !.pend = {"stateLib.delete", "filesLib.delete"}]

\* get(): runs to `await getStateLib()`, and on when the handle is cached
F_getBody(s, o) ==
    /\ Begin(s)
    /\ client.kind = "file"
    /\ libPromise' = getLib(libPromise, F_stateLib)
    /\ ops' = [ops EXCEPT ![s] =
                 IF libPromise[F_stateLib] = "resolved"
                 THEN F_issueStateGet(o)
                 ELSE [CalledGetLib(o, F_stateLib) EXCEPT !.pc = "get:getStateLib"]]
    /\ UNCHANGED <<client, ctor, stateStore, filesStore, dbStore, bg, env>>

F_get(s) == F_getBody(s, NewOp("get", <<>>))

F_exists(s) == F_getBody(s, NewOp("exists", <<>>))

\* A faulty variant of F_cacheHit: the cached value is never used.
F_cacheHit_never(cache) == FALSE

\* cache?.value !== undefined
F_cacheHit(cache) == cache # {}

\* stateLib.get(encodedKey) settles; on a miss get() goes on to getFilesLib()
F_get_stateGet(s) ==
    /\ client.kind = "file"
    /\ ops[s].pc = "get:stateLib.get"
    /\ \/ /\ InjectFault
          /\ ops' = [ops EXCEPT ![s] =
                       F_get_catch(Log(@, Ret("stateLib.get", Failed("StateGetError"))),
                                   "StateGetError")]
          /\ UNCHANGED libPromise
       \/ /\ UNCHANGED env
          /\ LET cache == StateEntry(client.encodedKey)
                 o == Log(ops[s], Ret("stateLib.get",
                                      IF cache = {} THEN <<"undefined">>
                                      ELSE <<"value", (CHOOSE x \in cache : TRUE).value>>))
             IN  IF F_cacheHit(cache)
                 THEN /\ ops' = [ops EXCEPT ![s] =
                            F_finish(o, Returned(<<(CHOOSE x \in cache : TRUE).value>>))]
                      /\ UNCHANGED libPromise
                 ELSE /\ libPromise' = getLib(libPromise, F_filesLib)
                      /\ ops' = [ops EXCEPT ![s] =
                            IF libPromise[F_filesLib] = "resolved"
                            THEN F_issueFilesRead(o)
                            ELSE [CalledGetLib(o, F_filesLib)
                                    EXCEPT !.pc = "get:getFilesLib"]]
    /\ UNCHANGED <<client, ctor, stateStore, filesStore, dbStore, bg, hist>>

\* A faulty variant of F_get_afterRead: the value read is saved to the file again.
F_get_afterRead_writeBack(o, buffer) ==
    Issue([o EXCEPT !.tmp = <<BufferToString(buffer)>>], "filesLib.write",
          <<client.filePath, BufferToString(buffer)>>, "put:filesLib.write")

\* A faulty variant of F_get_afterRead: the cache is not re-populated.
F_get_afterRead_noHeal(o, buffer) == F_finish(o, Returned(<<BufferToString(buffer)>>))

\* After filesLib.read(filePath) returned `buffer`
F_get_afterRead(o, buffer) ==
    LET value == BufferToString(buffer)
    IN  IF ByteLength(value) <= MAX_STATE_VALUE_SIZE
        THEN F_issueStatePut([o EXCEPT !.tmp = <<value>>], value, "get:stateLib.put")
        ELSE F_finish(o, Returned(<<value>>))

\* filesLib.read(filePath) settles
F_get_filesRead(s) ==
    /\ client.kind = "file"
    /\ ops[s].pc = "get:filesLib.read"
    /\ \/ /\ InjectFault
          /\ ops' = [ops EXCEPT ![s] =
                       F_get_catch(Log(@, Ret("filesLib.read", Failed("FilesReadError"))),
                                   "FilesReadError")]
       \/ /\ UNCHANGED env
          /\ LET file == FileEntry(client.filePath)
             IN  IF file = {}
                 THEN ops' = [ops EXCEPT ![s] =
                        F_get_catch(Log(@, Ret("filesLib.read",
                                               Failed("ERROR_FILE_NOT_EXISTS"))),
                                    "ERROR_FILE_NOT_EXISTS")]
                 ELSE LET buffer == (CHOOSE x \in file : TRUE).data
                      IN ops' = [ops EXCEPT ![s] =
                           F_get_afterRead(Log(@, Ret("filesLib.read", <<"value", buffer>>)),
                                           buffer)]
    /\ UNCHANGED <<client, ctor, libPromise, stateStore, filesStore, dbStore, bg, hist>>

\* stateLib.put(encodedKey, value, { ttl }) of get() settles
F_get_statePut(s) ==
    /\ client.kind = "file"
    /\ ops[s].pc = "get:stateLib.put"
    /\ \/ /\ InjectFault
          /\ ops' = [ops EXCEPT ![s] =
                       F_get_catch(Log(@, Ret("stateLib.put", Failed("StatePutError"))),
                                   "StatePutError")]
          /\ UNCHANGED stateStore
       \/ /\ UNCHANGED env
          /\ stateStore' = StatePut(client.encodedKey, ops[s].tmp[1], client.config.ttl)
          /\ ops' = [ops EXCEPT ![s] =
                       F_finish(Log(@, Ret("stateLib.put", Ok)), Returned(ops[s].tmp))]
    /\ UNCHANGED <<client, ctor, libPromise, filesStore, dbStore, bg, hist>>

\* put(value): runs to `await getFilesLib()`, and on when the handle is cached
F_put(s, value) ==
    /\ Begin(s)
    /\ client.kind = "file"
    /\ libPromise' = getLib(libPromise, F_filesLib)
    /\ LET o == NewOp("put", <<value>>)
       IN  ops' = [ops EXCEPT ![s] =
                     IF libPromise[F_filesLib] = "resolved"
                     THEN F_issueFilesWrite(o)
                     ELSE [CalledGetLib(o, F_filesLib) EXCEPT !.pc = "put:getFilesLib"]]
    /\ UNCHANGED <<client, ctor, stateStore, filesStore, dbStore, bg, env>>

\* A faulty variant of F_put_afterWrite: the size check is left out.
F_put_afterWrite_noLimit(o) ==
    IF libPromise[F_stateLib] = "resolved"
    THEN F_issueStatePut(o, o.arg[1], "put:stateLib.put")
    ELSE [CalledGetLib(o, F_stateLib) EXCEPT !.pc = "put:getStateLib"]

\* After filesLib.write resolved: the size check, then getStateLib()
F_put_afterWrite(o) ==
    IF ByteLength(o.arg[1]) > MAX_STATE_VALUE_SIZE
    THEN F_finish([o EXCEPT !.warns = @ + 1], Returned(<<>>))
    ELSE IF libPromise[F_stateLib] = "resolved"
         THEN F_issueStatePut(o, o.arg[1], "put:stateLib.put")
         ELSE [CalledGetLib(o, F_stateLib) EXCEPT !.pc = "put:getStateLib"]

\* filesLib.write(filePath, value) settles
F_put_filesWrite(s) ==
    /\ client.kind = "file"
    /\ ops[s].pc = "put:filesLib.write"
    /\ \/ /\ InjectFault
          /\ ops' = [ops EXCEPT ![s] =
                       F_catch(Log(@, Ret("filesLib.write", Failed("FilesWriteError"))),
                               "FilesWriteError")]
          /\ UNCHANGED <<filesStore, libPromise>>
       \/ /\ UNCHANGED env
          /\ filesStore' = FilesWrite(client.filePath, ops[s].arg[1])
          /\ LET o == F_put_afterWrite(Log(ops[s], Ret("filesLib.write", Ok)))
             IN  /\ ops' = [ops EXCEPT ![s] = o]
                 /\ libPromise' = IF o.pc = "done" THEN libPromise
                                  ELSE getLib(libPromise, F_stateLib)
    /\ UNCHANGED <<client, ctor, stateStore, dbStore, bg, hist>>

\* stateLib.put(encodedKey, value, { ttl }) of put() settles
F_put_statePut(s) ==
    /\ client.kind = "file"
    /\ ops[s].pc = "put:stateLib.put"
    /\ \/ /\ InjectFault
          /\ ops' = [ops EXCEPT ![s] =
                       F_catch(Log(@, Ret("stateLib.put", Failed("StatePutError"))),
                               "StatePutError")]
          /\ UNCHANGED stateStore
       \/ /\ UNCHANGED env
          /\ stateStore' = StatePut(client.encodedKey, ops[s].arg[1], client.config.ttl)
          /\ ops' = [ops EXCEPT ![s] =
                       F_finish(Log(@, Ret("stateLib.put", Ok)), Returned(<<>>))]
    /\ UNCHANGED <<client, ctor, libPromise, filesStore, dbStore, bg, hist>>

\* delete(): both accessors are called, then Promise.all awaits both handles
F_delete(s) ==
    /\ Begin(s)
    /\ client.kind = "file"
    /\ libPromise' = getLib(getLib(libPromise, F_stateLib), F_filesLib)
    /\ LET o == CalledGetLib(CalledGetLib(NewOp("delete", <<>>), F_stateLib), F_filesLib)
           waiting == {l \in {F_stateLib, F_filesLib} : libPromise[l] # "resolved"}
       IN  ops' = [ops EXCEPT ![s] =
                     IF waiting = {}
                     THEN F_issueDeletes(o)
                     ELSE [o EXCEPT !.pc = "delete:Promise.all(libs)", !.pend = waiting]]
    /\ UNCHANGED <<client, ctor, stateStore, filesStore, dbStore, bg, env>>

\* A tier call of delete() that is still in flight, with its target.
InFlight(s, fn) ==
    [fn |-> fn, by |-> s,
     coll |-> IF fn = "collection.deleteOne" THEN client.config.dbCollection ELSE <<>>,
     target |-> IF fn = "stateLib.delete" THEN client.encodedKey
                ELSE IF fn = "filesLib.delete" THEN client.filePath
                ELSE client.config.dbDocumentId]

\* One of the two deletes of Promise.all settles.  The first rejection rejects
\* delete() at once; the other delete stays in flight.
F_deleteSettles(s, fn, err) ==
    /\ client.kind = "file"
    /\ ops[s].pc = "delete:Promise.all(deletes)"
    /\ fn \in ops[s].pend
    /\ \/ /\ InjectFault
          /\ ops' = [ops EXCEPT ![s] =
                       F_catch([Log(@, Ret(fn, Failed(err))) EXCEPT !.pend = {}], err)]
          /\ bg' = bg \cup {InFlight(s, f) : f \in ops[s].pend \ {fn}}
          /\ UNCHANGED <<stateStore, filesStore>>
       \/ /\ UNCHANGED <<env, bg>>
          /\ IF fn = "stateLib.delete"
             THEN /\ stateStore' = stateStore \ StateEntry(client.encodedKey)
                  /\ UNCHANGED filesStore
             ELSE /\ filesStore' = filesStore \ FileEntry(client.filePath)
                  /\ UNCHANGED stateStore
          /\ LET o == [Log(ops[s], Ret(fn, Ok)) EXCEPT !.pend = @ \ {fn}]
             IN  ops' = [ops EXCEPT ![s] =
                           IF o.pend = {} THEN F_finish(o, Returned(<<>>)) ELSE o]
    /\ UNCHANGED <<client, ctor, libPromise, dbStore, hist>>

F_delete_stateDelete(s) == F_deleteSettles(s, "stateLib.delete", "StateDeleteError")

F_delete_filesDelete(s) == F_deleteSettles(s, "filesLib.delete", "FilesDeleteError")

\* The call awaiting the promise of lib resumes when init() settled.
F_resume(o, lib, ok) ==
    LET err == IF lib = F_stateLib THEN "StateInitError" ELSE "FilesInitError"
        r == Log(o, Ret("init", IF ok THEN <<"ok", lib>> ELSE Failed(err)))
    IN  IF o.pc = "get:getStateLib" /\ lib = F_stateLib
        THEN IF ok THEN F_issueStateGet(r) ELSE F_get_catch(r, err)
        ELSE IF o.pc = "get:getFilesLib" /\ lib = F_filesLib
        THEN IF ok THEN F_issueFilesRead(r) ELSE F_get_catch(r, err)
        ELSE IF o.pc = "put:getFilesLib" /\ lib = F_filesLib
        THEN IF ok THEN F_issueFilesWrite(r) ELSE F_catch(r, err)
        ELSE IF o.pc = "put:getStateLib" /\ lib = F_stateLib
        THEN IF ok THEN F_issueStatePut(r, o.arg[1], "put:stateLib.put") ELSE F_catch(r, err)
        ELSE IF o.pc = "delete:Promise.all(libs)" /\ lib \in o.pend
        THEN IF ok
             THEN IF o.pend = {lib}
                  THEN F_issueDeletes([r EXCEPT !.pend = {}])
                  ELSE [r EXCEPT !.pend = @ \ {lib}]
             ELSE F_catch([r EXCEPT !.pend = {}], err)
        ELSE o

(***************************************************************************)
(* createDatabaseStorageClient (state-database.ts)                         *)
(***************************************************************************)
createDatabaseStorageClient(config) ==
    /\ MayCreate
    /\ LET encodedKey == encodeKey(fullConfig(config).key)
       IN  IF encodedKey.threw
           THEN /\ ctor' = [config |-> config, outcome |-> "threw"]
                /\ UNCHANGED client
           ELSE /\ ctor' = [config |-> config, outcome |-> "returned"]
                /\ client' = [kind |-> "db", config |-> fullConfig(config),
                              encodedKey |-> encodedKey.value, filePath |-> <<>>]
    /\ ops' = [s \in Slots |-> IdleOp]
    /\ UNCHANGED <<libPromise, stateStore, filesStore, dbStore, bg, hist>>

\* exists(): return data !== undefined, or the error get() threw
D_existsResult(got) ==
    IF got.t = "throw" THEN got ELSE Returned(<<got.v # <<>>>>)

D_finish(o, out) ==
    IF o.op = "exists"
    THEN [o EXCEPT !.pc = "done", !.got = out, !.out = D_existsResult(out)]
    ELSE [o EXCEPT !.pc = "done", !.out = out]

\* the catch block of get(), put() and delete(): log and rethrow
D_catch(o, err) == D_finish([o EXCEPT !.errs = @ + 1], Thrown(err))

D_issueStateGet(o) ==
    Issue(o, "stateLib.get", <<client.encodedKey>>, "get:stateLib.get")

D_issueConnect(o) == Issue(o, "db.connect", <<>>, "db.connect")

D_issueCollection(o) ==
    Issue(o, "dbClient.collection", <<client.config.dbCollection>>, "dbClient.collection")

\* const dbDocument = { _id: fullConfig.dbDocumentId, ...data }
dbDocument(data) ==
    ObjectSpread(<<[k |-> IdName, v |-> client.config.dbDocumentId]>>, data)

D_issueReplaceOne(o) ==
    Issue(o, "collection.replaceOne",
          <<client.config.dbDocumentId, dbDocument(o.arg[1])>>, "put:collection.replaceOne")

\* A faulty variant of D_issueFindOne: the query is sent twice.
D_issueFindOne_twice(o) ==
    Issue(Log(o, Call("collection.findOne", <<client.config.dbDocumentId>>)),
          "collection.findOne", <<client.config.dbDocumentId>>, "get:collection.findOne")

D_issueFindOne(o) ==
    Issue(o, "collection.findOne", <<client.config.dbDocumentId>>, "get:collection.findOne")

D_issueStatePut(o, jsonData, pc) ==
    Issue(o, "stateLib.put", <<client.encodedKey, jsonData, client.config.ttl>>, pc)

\* A faulty variant of D_issueDeletes: the document is left alone.
D_issueDeletes_stateOnly(o) ==
    [Log(o, Call("stateLib.delete", <<client.encodedKey>>))
       EXCEPT !.pc = "delete:Promise.all(deletes)", !.pend = {"stateLib.delete"}]

D_issueDeletes(o) ==
    [Log(Log(o, Call("stateLib.delete", <<client.encodedKey>>)),
         Call("collection.deleteOne", <<client.config.dbDocumentId>>))
       EXCEPT !.pc = "delete:Promise.all(deletes)",
              !.pend = {"stateLib.delete", "collection.deleteOne"}]

\* put(data) and delete() start alike: both accessors are called, then
\* Promise.all awaits both handles.
D_bothLibs(s, o) ==
    /\ Begin(s)
    /\ client.kind = "db"
    /\ libPromise' = getLib(getLib(libPromise, D_stateLib), D_dbLib)
    /\ LET called == CalledGetLib(CalledGetLib(o, D_stateLib), D_dbLib)
           waiting == {l \in {D_stateLib, D_dbLib} : libPromise[l] # "resolved"}
       IN  ops' = [ops EXCEPT ![s] =
                     IF waiting = {}
                     THEN D_issueConnect(called)
                     ELSE [called EXCEPT !.pc = "Promise.all(libs)", !.pend = waiting]]
    /\ UNCHANGED <<client, ctor, stateStore, filesStore, dbStore, bg, env>>

D_put(s, data) == D_bothLibs(s, [NewOp("put", <<data>>) EXCEPT !.tmp = JSON_stringify(data)])

D_delete(s) == D_bothLibs(s, NewOp("delete", <<>>))

D_getBody(s, o) ==
    /\ Begin(s)
    /\ client.kind = "db"
    /\ libPromise' = getLib(libPromise, D_stateLib)
    /\ ops' = [ops EXCEPT ![s] =
                 IF libPromise[D_stateLib] = "resolved"
                 THEN D_issueStateGet(o)
                 ELSE [CalledGetLib(o, D_stateLib) EXCEPT !.pc = "get:getStateLib"]]
    /\ UNCHANGED <<client, ctor, stateStore, filesStore, dbStore, bg, env>>

D_get(s) == D_getBody(s, NewOp("get", <<>>))

D_exists(s) == D_getBody(s, NewOp("exists", <<>>))

\* A faulty variant of D_cacheHit: the cached document is never used.
D_cacheHit_never(stateResult) == FALSE

\* stateResult?.value !== undefined
D_cacheHit(stateResult) == stateResult # {}

\* state.get(encodedKey) settles: a hit is parsed, a miss goes on to getDbLib()
D_get_stateGet(s) ==
    /\ client.kind = "db"
    /\ ops[s].pc = "get:stateLib.get"
    /\ \/ /\ InjectFault
          /\ ops' = [ops EXCEPT ![s] =
                       D_catch(Log(@, Ret("stateLib.get", Failed("StateGetError"))),
                               "StateGetError")]
          /\ UNCHANGED libPromise
       \/ /\ UNCHANGED env
          /\ LET cache == StateEntry(client.encodedKey)
                 o == Log(ops[s], Ret("stateLib.get",
                                      IF cache = {} THEN <<"undefined">>
                                      ELSE <<"value", (CHOOSE x \in cache : TRUE).value>>))
             IN  IF D_cacheHit(cache)
                 THEN LET parsed == JSON_parse((CHOOSE x \in cache : TRUE).value)
                      IN /\ ops' = [ops EXCEPT ![s] =
                               IF parsed.ok THEN D_finish(o, Returned(<<parsed.value>>))
                               ELSE D_catch(o, "SyntaxError")]
                         /\ UNCHANGED libPromise
                 ELSE /\ libPromise' = getLib(libPromise, D_dbLib)
                      /\ ops' = [ops EXCEPT ![s] =
                            IF libPromise[D_dbLib] = "resolved"
                            THEN D_issueConnect(o)
                            ELSE [CalledGetLib(o, D_dbLib) EXCEPT !.pc = "get:getDbLib"]]
    /\ UNCHANGED <<client, ctor, stateStore, filesStore, dbStore, bg, hist>>

\* db.connect() settles
D_connect(s) ==
    /\ client.kind = "db"
    /\ ops[s].pc = "db.connect"
    /\ \/ /\ InjectFault
          /\ ops' = [ops EXCEPT ![s] =
                       D_catch(Log(@, Ret("db.connect", Failed("DbConnectError"))),
                               "DbConnectError")]
       \/ /\ UNCHANGED env
          /\ ops' = [ops EXCEPT ![s] = D_issueCollection(Log(@, Ret("db.connect", Ok)))]
    /\ UNCHANGED <<client, ctor, libPromise, stateStore, filesStore, dbStore, bg, hist>>

\* What follows `await dbClient.collection(...)` in put(), get() and delete()
D_afterCollection(o) ==
    IF o.op = "put" THEN D_issueReplaceOne(o)
    ELSE IF o.op = "delete" THEN D_issueDeletes(o)
    ELSE D_issueFindOne(o)

\* dbClient.collection(fullConfig.dbCollection) settles
D_collection(s) ==
    /\ client.kind = "db"
    /\ ops[s].pc = "dbClient.collection"
    /\ \/ /\ InjectFault
          /\ ops' = [ops EXCEPT ![s] =
                       D_catch(Log(@, Ret("dbClient.collection", Failed("DbCollectionError"))),
                               "DbCollectionError")]
       \/ /\ UNCHANGED env
          /\ ops' = [ops EXCEPT ![s] =
                       D_afterCollection(Log(@, Ret("dbClient.collection", Ok)))]
    /\ UNCHANGED <<client, ctor, libPromise, stateStore, filesStore, dbStore, bg, hist>>

\* After replaceOne resolved: the size check, then state.put
D_put_afterReplaceOne(o) ==
    IF ByteLength(o.tmp) > MAX_STATE_VALUE_SIZE
    THEN D_finish([o EXCEPT !.warns = @ + 1], Returned(<<>>))
    ELSE D_issueStatePut(o, o.tmp, "put:stateLib.put")

\* collection.replaceOne({ _id }, dbDocument, { upsert: true }) settles
D_put_replaceOne(s) ==
    /\ client.kind = "db"
    /\ ops[s].pc = "put:collection.replaceOne"
    /\ LET doc == dbDocument(ops[s].arg[1])
       IN  \/ /\ InjectFault
              /\ ops' = [ops EXCEPT ![s] =
                           D_catch(Log(@, Ret("collection.replaceOne", Failed("DbWriteError"))),
                                   "DbWriteError")]
              /\ UNCHANGED dbStore
           \/ /\ UNCHANGED env
              /\ IF ReplaceOneRefused(client.config.dbDocumentId, doc)
                 THEN /\ ops' = [ops EXCEPT ![s] =
                           D_catch(Log(@, Ret("collection.replaceOne",
                                              Failed("ImmutableField"))),
                                   "ImmutableField")]
                      /\ UNCHANGED dbStore
                 ELSE /\ dbStore' = ReplaceOne(client.config.dbCollection,
                                               client.config.dbDocumentId, doc)
                      /\ ops' = [ops EXCEPT ![s] =
                           D_put_afterReplaceOne(Log(@, Ret("collection.replaceOne", Ok)))]
    /\ UNCHANGED <<client, ctor, libPromise, stateStore, filesStore, bg, hist>>

\* state.put(encodedKey, jsonData, { ttl }) of put() settles
D_put_statePut(s) ==
    /\ client.kind = "db"
    /\ ops[s].pc = "put:stateLib.put"
    /\ \/ /\ InjectFault
          /\ ops' = [ops EXCEPT ![s] =
                       D_catch(Log(@, Ret("stateLib.put", Failed("StatePutError"))),
                               "StatePutError")]
          /\ UNCHANGED stateStore
       \/ /\ UNCHANGED env
          /\ stateStore' = StatePut(client.encodedKey, ops[s].tmp, client.config.ttl)
          /\ ops' = [ops EXCEPT ![s] =
                       D_finish(Log(@, Ret("stateLib.put", Ok)), Returned(<<>>))]
    /\ UNCHANGED <<client, ctor, libPromise, filesStore, dbStore, bg, hist>>

\* After findOne returned doc: the cache is re-populated when doc fits
D_get_afterFindOne(o, doc) ==
    LET jsonData == JSON_stringify(doc)
    IN  IF ByteLength(jsonData) <= MAX_STATE_VALUE_SIZE
        THEN D_issueStatePut([o EXCEPT !.tmp = <<doc>>], jsonData, "get:stateLib.put")
        ELSE D_finish(o, Returned(<<doc>>))

\* collection.findOne({ _id }, { projection: { _id: 0 } }) settles
D_get_findOne(s) ==
    /\ client.kind = "db"
    /\ ops[s].pc = "get:collection.findOne"
    /\ \/ /\ InjectFault
          /\ ops' = [ops EXCEPT ![s] =
                       D_catch(Log(@, Ret("collection.findOne", Failed("DbReadError"))),
                               "DbReadError")]
       \/ /\ UNCHANGED env
          /\ LET found == DbMatch(client.config.dbCollection, client.config.dbDocumentId)
             IN  IF found = {}
                 THEN ops' = [ops EXCEPT ![s] =
                        D_finish(Log(@, Ret("collection.findOne", <<"null">>)),
                                 Returned(<<>>))]
                 ELSE LET doc == WithoutField((CHOOSE x \in found : TRUE).doc, IdName)
                      IN ops' = [ops EXCEPT ![s] =
                           D_get_afterFindOne(Log(@, Ret("collection.findOne", <<"value", doc>>)),
                                              doc)]
    /\ UNCHANGED <<client, ctor, libPromise, stateStore, filesStore, dbStore, bg, hist>>

\* state.put(encodedKey, jsonData, { ttl }) of get() settles
D_get_statePut(s) ==
    /\ client.kind = "db"
    /\ ops[s].pc = "get:stateLib.put"
    /\ \/ /\ InjectFault
          /\ ops' = [ops EXCEPT ![s] =
                       D_catch(Log(@, Ret("stateLib.put", Failed("StatePutError"))),
                               "StatePutError")]
          /\ UNCHANGED stateStore
       \/ /\ UNCHANGED env
          /\ stateStore' = StatePut(client.encodedKey, JSON_stringify(ops[s].tmp[1]),
                                    client.config.ttl)
          /\ ops' = [ops EXCEPT ![s] =
                       D_finish(Log(@, Ret("stateLib.put", Ok)), Returned(ops[s].tmp))]
    /\ UNCHANGED <<client, ctor, libPromise, filesStore, dbStore, bg, hist>>

\* One of the two deletes of Promise.all settles.  The first rejection rejects
\* delete() at once; the other delete stays in flight.
D_deleteSettles(s, fn, err) ==
    /\ client.kind = "db"
    /\ ops[s].pc = "delete:Promise.all(deletes)"
    /\ fn \in ops[s].pend
    /\ \/ /\ InjectFault
          /\ ops' = [ops EXCEPT ![s] =
                       D_catch([Log(@, Ret(fn, Failed(err))) EXCEPT !.pend = {}], err)]
          /\ bg' = bg \cup {InFlight(s, f) : f \in ops[s].pend \ {fn}}
          /\ UNCHANGED <<stateStore, dbStore>>
       \/ /\ UNCHANGED <<env, bg>>
          /\ IF fn = "stateLib.delete"
             THEN /\ stateStore' = stateStore \ StateEntry(client.encodedKey)
                  /\ UNCHANGED dbStore
             ELSE /\ dbStore' = dbStore \ DbMatch(client.config.dbCollection,
                                                  client.config.dbDocumentId)
                  /\ UNCHANGED stateStore
          /\ LET o == [Log(ops[s], Ret(fn, Ok)) EXCEPT !.pend = @ \ {fn}]
             IN  ops' = [ops EXCEPT ![s] =
                           IF o.pend = {} THEN D_finish(o, Returned(<<>>)) ELSE o]
    /\ UNCHANGED <<client, ctor, libPromise, filesStore, hist>>

D_delete_stateDelete(s) == D_deleteSettles(s, "stateLib.delete", "StateDeleteError")

D_delete_deleteOne(s) == D_deleteSettles(s, "collection.deleteOne", "DbDeleteError")

\* The call awaiting the promise of lib resumes when init() settled.
D_resume(o, lib, ok) ==
    LET err == IF lib = D_stateLib THEN "StateInitError" ELSE "DbInitError"
        r == Log(o, Ret("init", IF ok THEN <<"ok", lib>> ELSE Failed(err)))
    IN  IF o.pc = "get:getStateLib" /\ lib = D_stateLib
        THEN IF ok THEN D_issueStateGet(r) ELSE D_catch(r, err)
        ELSE IF o.pc = "get:getDbLib" /\ lib = D_dbLib
        THEN IF ok THEN D_issueConnect(r) ELSE D_catch(r, err)
        ELSE IF o.pc = "Promise.all(libs)" /\ lib \in o.pend
        THEN IF ok
             THEN IF o.pend = {lib}
                  THEN D_issueConnect([r EXCEPT !.pend = {}])
                  ELSE [r EXCEPT !.pend = @ \ {lib}]
             ELSE D_catch([r EXCEPT !.pend = {}], err)
        ELSE o

(***************************************************************************)
(* The key-addressed functions get(key) and put(key, value)                *)
(* (module aio-persistent-state), which need no client.                    *)
(***************************************************************************)
L_Begin(s) ==
    /\ s <= env.callers
    /\ ~IsRunning(ops[s])
    /\ hist' = Push(hist, ops[s])

\* the catch block of get(key) and of put(key, value): log and rethrow
L_catch(o, err) == [o EXCEPT !.errs = @ + 1, !.pc = "done", !.out = Thrown(err)]

L_return(o, v) == [o EXCEPT !.pc = "done", !.out = Returned(v)]

\* A faulty variant of L_cacheHit: an empty cached value counts as a miss.
L_cacheHit_truthy(cache) == cache # {} /\ StrLength((CHOOSE x \in cache : TRUE).value) > 0

\* cache?.value != null
L_cacheHit(cache) == cache # {}

\* get(key) after `await getStateLib()`: encodeKey(key), then stateLib.get
L_get_afterStateLib(o) ==
    LET encodedKey == encodeKey(o.arg[1])
    IN  IF encodedKey.threw
        THEN L_catch(o, encodedKey.error)
        ELSE Issue(o, "stateLib.get", <<encodedKey.value>>, "L:get:stateLib.get")

\* get(key): runs to `await getStateLib()`, and on when the handle is cached
L_get(s, key) ==
    /\ L_Begin(s)
    /\ libPromise' = getLib(libPromise, L_stateLib)
    /\ LET o == NewOp("get(key)", <<key>>)
       IN  ops' = [ops EXCEPT ![s] =
                     IF libPromise[L_stateLib] = "resolved"
                     THEN L_get_afterStateLib(o)
                     ELSE [CalledGetLib(o, L_stateLib) EXCEPT !.pc = "L:get:getStateLib"]]
    /\ UNCHANGED <<client, ctor, stateStore, filesStore, dbStore, bg, env>>

\* stateLib.get(encodedKey) settles; on a miss get(key) goes on to getFilesLib()
L_get_stateGet(s) ==
    /\ ops[s].pc = "L:get:stateLib.get"
    /\ \/ /\ InjectFault
          /\ ops' = [ops EXCEPT ![s] =
                       L_catch(Log(@, Ret("stateLib.get", Failed("StateGetError"))),
                               "StateGetError")]
          /\ UNCHANGED libPromise
       \/ /\ UNCHANGED env
          /\ LET cache == StateEntry(encodeKey(ops[s].arg[1]).value)
                 o == Log(ops[s], Ret("stateLib.get",
                                      IF cache = {} THEN <<"undefined">>
                                      ELSE <<"value", (CHOOSE x \in cache : TRUE).value>>))
             IN  IF L_cacheHit(cache)
                 THEN /\ ops' = [ops EXCEPT ![s] =
                            L_return(o, <<(CHOOSE x \in cache : TRUE).value>>)]
                      /\ UNCHANGED libPromise
                 ELSE /\ libPromise' = getLib(libPromise, L_filesLib)
                      /\ ops' = [ops EXCEPT ![s] =
                            IF libPromise[L_filesLib] = "resolved"
                            THEN Issue(o, "filesLib.read", <<o.arg[1] \o DotJson>>,
                                       "L:get:filesLib.read")
                            ELSE [CalledGetLib(o, L_filesLib)
                                    EXCEPT !.pc = "L:get:getFilesLib"]]
    /\ UNCHANGED <<client, ctor, stateStore, filesStore, dbStore, bg, hist>>

\* filesLib.read(`${key}.json`) settles; a missing file is an error like any other
L_get_filesRead(s) ==
    /\ ops[s].pc = "L:get:filesLib.read"
    /\ \/ /\ InjectFault
          /\ ops' = [ops EXCEPT ![s] =
                       L_catch(Log(@, Ret("filesLib.read", Failed("FilesReadError"))),
                               "FilesReadError")]
       \/ /\ UNCHANGED env
          /\ LET file == FileEntry(ops[s].arg[1] \o DotJson)
             IN  IF file = {}
                 THEN ops' = [ops EXCEPT ![s] =
                        L_catch(Log(@, Ret("filesLib.read", Failed("ERROR_FILE_NOT_EXISTS"))),
                                "ERROR_FILE_NOT_EXISTS")]
                 ELSE LET buffer == (CHOOSE x \in file : TRUE).data
                          value == BufferToString(buffer)
                          o == Log(ops[s], Ret("filesLib.read", <<"value", buffer>>))
                      IN ops' = [ops EXCEPT ![s] =
                           IF ByteLength(value) <= MAX_STATE_VALUE_SIZE
                           THEN Issue([o EXCEPT !.tmp = <<value>>], "stateLib.put",
                                      <<encodeKey(o.arg[1]).value, value>>,
                                      "L:get:stateLib.put")
                           ELSE L_return(o, <<value>>)]
    /\ UNCHANGED <<client, ctor, libPromise, stateStore, filesStore, dbStore, bg, hist>>

\* stateLib.put(encodedKey, value) of get(key) settles; no ttl is passed
L_get_statePut(s) ==
    /\ ops[s].pc = "L:get:stateLib.put"
    /\ \/ /\ InjectFault
          /\ ops' = [ops EXCEPT ![s] =
                       L_catch(Log(@, Ret("stateLib.put", Failed("StatePutError"))),
                               "StatePutError")]
          /\ UNCHANGED stateStore
       \/ /\ UNCHANGED env
          /\ stateStore' = StatePut(encodeKey(ops[s].arg[1]).value, ops[s].tmp[1], Undefined)
          /\ ops' = [ops EXCEPT ![s] = L_return(Log(@, Ret("stateLib.put", Ok)), ops[s].tmp)]
    /\ UNCHANGED <<client, ctor, libPromise, filesStore, dbStore, bg, hist>>

\* put(key, value): encodeKey(key), then runs to `await getFilesLib()`
L_put(s, key, value) ==
    /\ L_Begin(s)
    /\ LET o == NewOp("put(key, value)", <<key, value>>)
       IN  IF encodeKey(key).threw
           THEN /\ ops' = [ops EXCEPT ![s] = L_catch(o, encodeKey(key).error)]
                /\ UNCHANGED libPromise
           ELSE /\ libPromise' = getLib(libPromise, L_filesLib)
                /\ ops' = [ops EXCEPT ![s] =
                             IF libPromise[L_filesLib] = "resolved"
                             THEN Issue(o, "filesLib.write", <<key \o DotJson, value>>,
                                        "L:put:filesLib.write")
                             ELSE [CalledGetLib(o, L_filesLib)
                                     EXCEPT !.pc = "L:put:getFilesLib"]]
    /\ UNCHANGED <<client, ctor, stateStore, filesStore, dbStore, bg, env>>

\* filesLib.write(`${key}.json`, value) settles; then the size check and getStateLib()
L_put_filesWrite(s) ==
    /\ ops[s].pc = "L:put:filesLib.write"
    /\ \/ /\ InjectFault
          /\ ops' = [ops EXCEPT ![s] =
                       L_catch(Log(@, Ret("filesLib.write", Failed("FilesWriteError"))),
                               "FilesWriteError")]
          /\ UNCHANGED <<filesStore, libPromise>>
       \/ /\ UNCHANGED env
          /\ filesStore' = FilesWrite(ops[s].arg[1] \o DotJson, ops[s].arg[2])
          /\ LET o == Log(ops[s], Ret("filesLib.write", Ok))
                 encodedKey == encodeKey(o.arg[1]).value
             IN  IF ByteLength(o.arg[2]) > MAX_STATE_VALUE_SIZE
                 THEN /\ ops' = [ops EXCEPT ![s] =
                                   L_return([o EXCEPT !.warns = @ + 1], <<encodedKey>>)]
                      /\ UNCHANGED libPromise
                 ELSE /\ libPromise' = getLib(libPromise, L_stateLib)
                      /\ ops' = [ops EXCEPT ![s] =
                                   IF libPromise[L_stateLib] = "resolved"
                                   THEN Issue(o, "stateLib.put", <<encodedKey, o.arg[2]>>,
                                              "L:put:stateLib.put")
                                   ELSE [CalledGetLib(o, L_stateLib)
                                           EXCEPT !.pc = "L:put:getStateLib"]]
    /\ UNCHANGED <<client, ctor, stateStore, dbStore, bg, hist>>

\* stateLib.put(encodedKey, value) of put(key, value) settles; put returns its result
L_put_statePut(s) ==
    /\ ops[s].pc = "L:put:stateLib.put"
    /\ \/ /\ InjectFault
          /\ ops' = [ops EXCEPT ![s] =
                       L_catch(Log(@, Ret("stateLib.put", Failed("StatePutError"))),
                               "StatePutError")]
          /\ UNCHANGED stateStore
       \/ /\ UNCHANGED env
          /\ stateStore' = StatePut(encodeKey(ops[s].arg[1]).value, ops[s].arg[2], Undefined)
          /\ ops' = [ops EXCEPT ![s] =
                       L_return(Log(@, Ret("stateLib.put", Ok)),
                                <<encodeKey(ops[s].arg[1]).value>>)]
    /\ UNCHANGED <<client, ctor, libPromise, filesStore, dbStore, bg, hist>>

\* The call awaiting the promise of lib resumes when init() settled.
L_resume(o, lib, ok) ==
    LET err == IF lib = L_stateLib THEN "StateInitError" ELSE "FilesInitError"
        r == Log(o, Ret("init", IF ok THEN <<"ok", lib>> ELSE Failed(err)))
    IN  IF o.pc = "L:get:getStateLib" /\ lib = L_stateLib
        THEN IF ok THEN L_get_afterStateLib(r) ELSE L_catch(r, err)
        ELSE IF o.pc = "L:get:getFilesLib" /\ lib = L_filesLib
        THEN IF ok
             THEN Issue(r, "filesLib.read", <<o.arg[1] \o DotJson>>, "L:get:filesLib.read")
             ELSE L_catch(r, err)
        ELSE IF o.pc = "L:put:getFilesLib" /\ lib = L_filesLib
        THEN IF ok
             THEN Issue(r, "filesLib.write", <<o.arg[1] \o DotJson, o.arg[2]>>,
                        "L:put:filesLib.write")
             ELSE L_catch(r, err)
        ELSE IF o.pc = "L:put:getStateLib" /\ lib = L_stateLib
        THEN IF ok
             THEN Issue(r, "stateLib.put", <<encodeKey(o.arg[1]).value, o.arg[2]>>,
                        "L:put:stateLib.put")
             ELSE L_catch(r, err)
        ELSE o

(***************************************************************************)
(* The environment: store initialisation, expiry, calls left in flight.    *)
(***************************************************************************)
\* A faulty variant of InitSettles: a rejected promise stays cached.
InitSettles_keepsFailure(lib) ==
    /\ libPromise[lib] = "pending"
    /\ \E ok \in BOOLEAN :
         /\ IF ok THEN UNCHANGED env ELSE InjectFault
         /\ libPromise' = [libPromise EXCEPT ![lib] = IF ok THEN "resolved" ELSE "rejected"]
         /\ ops' = [s \in Slots |->
                      IF lib \in {L_stateLib, L_filesLib}
                      THEN L_resume(ops[s], lib, ok)
                      ELSE IF client.kind = "file" /\ lib \in {F_stateLib, F_filesLib}
                      THEN F_resume(ops[s], lib, ok)
                      ELSE IF client.kind = "db" /\ lib \in {D_stateLib, D_dbLib}
                      THEN D_resume(ops[s], lib, ok)
                      ELSE ops[s]]
    /\ UNCHANGED <<client, ctor, stateStore, filesStore, dbStore, bg, hist>>

\* init() of lib settles: the cached promise resolves, or rejects and the
\* cache is cleared; every call awaiting the promise resumes.  The running
\* calls are calls of the client in use, which await the promises of its module.
InitSettles(lib) ==
    /\ libPromise[lib] = "pending"
    /\ \E ok \in BOOLEAN :
         /\ IF ok THEN UNCHANGED env ELSE InjectFault
         /\ libPromise' = [libPromise EXCEPT ![lib] = IF ok THEN "resolved" ELSE "undefined"]
         /\ ops' = [s \in Slots |->
                      IF lib \in {L_stateLib, L_filesLib}
                      THEN L_resume(ops[s], lib, ok)
                      ELSE IF client.kind = "file" /\ lib \in {F_stateLib, F_filesLib}
                      THEN F_resume(ops[s], lib, ok)
                      ELSE IF client.kind = "db" /\ lib \in {D_stateLib, D_dbLib}
                      THEN D_resume(ops[s], lib, ok)
                      ELSE ops[s]]
    /\ UNCHANGED <<client, ctor, stateStore, filesStore, dbStore, bg, hist>>

DeleteError(fn) ==
    IF fn = "stateLib.delete" THEN "StateDeleteError"
    ELSE IF fn = "filesLib.delete" THEN "FilesDeleteError"
    ELSE "DbDeleteError"

\* The delete() that issued item, when it is still its caller's last call,
\* with the outcome r of item added to its record; Promise.all ignores r.
SettledInBackground(o, item, r) ==
    IF /\ o.op = "delete" /\ o.pc = "done"
       /\ \E i \in DOMAIN o.ev : o.ev[i].e = "call" /\ o.ev[i].fn = item.fn
       /\ ~\E i \in DOMAIN o.ev : o.ev[i].e = "ret" /\ o.ev[i].fn = item.fn
    THEN Log(o, Ret(item.fn, r))
    ELSE o

\* A delete left in flight by a rejected delete() settles.
BackgroundSettles ==
    \E item \in bg :
      /\ bg' = bg \ {item}
      /\ \/ /\ InjectFault
            /\ ops' = [ops EXCEPT ![item.by] =
                         SettledInBackground(@, item, Failed(DeleteError(item.fn)))]
            /\ UNCHANGED <<stateStore, filesStore, dbStore>>
         \/ /\ UNCHANGED env
            /\ ops' = [ops EXCEPT ![item.by] = SettledInBackground(@, item, Ok)]
            /\ stateStore' = IF item.fn = "stateLib.delete"
                             THEN stateStore \ StateEntry(item.target) ELSE stateStore
            /\ filesStore' = IF item.fn = "filesLib.delete"
                             THEN filesStore \ FileEntry(item.target) ELSE filesStore
            /\ dbStore' = IF item.fn = "collection.deleteOne"
                          THEN dbStore \ DbMatch(item.coll, item.target) ELSE dbStore
      /\ UNCHANGED <<client, ctor, libPromise, hist>>

\* The fast tier drops an entry whose TTL ran out, between two client calls.
Expire ==
    /\ stateStore # {}
    /\ \A s \in Slots : ~IsRunning(ops[s])
    /\ \E x \in stateStore : stateStore' = stateStore \ {x}
    /\ hist' = Push(Push(hist, ops[1]), ExpiryItem)
    /\ ops' = [ops EXCEPT ![1] = IdleOp]
    /\ UNCHANGED <<client, ctor, libPromise, filesStore, dbStore, bg, env>>

(***************************************************************************)
(* Specifications.                                                         *)
(***************************************************************************)
InitCommon ==
    /\ client = NoClient
    /\ ctor = [config |-> Config("none", <<>>, <<>>, <<>>, <<>>), outcome |-> "none"]
    /\ libPromise = [l \in Libs |-> "undefined"]
    /\ stateStore = {}
    /\ filesStore = {}
    /\ dbStore = {}
    /\ ops = [s \in Slots |-> IdleOp]
    /\ bg = {}
    /\ hist = <<>>

\* One caller, no store failure, the last Window completed calls are kept.
Init ==
    InitCommon /\ env = [callers |-> 1, faultsLeft |-> 0, window |-> Window, clientsLeft |-> 1]

\* One caller, up to MaxFaults store failures.
InitFaults ==
    InitCommon /\ env = [callers |-> 1, faultsLeft |-> MaxFaults, window |-> 0, clientsLeft |-> 1]

Next ==
    \/ \E config \in FileConfigs : createFileStorageClient(config)
    \/ \E config \in DbConfigs : createDatabaseStorageClient(config)
    \/ \E lib \in Libs : InitSettles(lib)
    \/ Expire
    \/ \E s \in Slots :
         \/ F_get(s)
         \/ F_exists(s)
         \/ F_get_stateGet(s)
         \/ F_get_filesRead(s)
         \/ F_get_statePut(s)
         \/ \E value \in StringValues : F_put(s, value)
         \/ F_put_filesWrite(s)
         \/ F_put_statePut(s)
         \/ F_delete(s)
         \/ F_delete_stateDelete(s)
         \/ F_delete_filesDelete(s)
         \/ D_get(s)
         \/ D_exists(s)
         \/ D_get_stateGet(s)
         \/ D_connect(s)
         \/ D_collection(s)
         \/ D_get_findOne(s)
         \/ D_get_statePut(s)
         \/ \E data \in DocValues : D_put(s, data)
         \/ D_put_replaceOne(s)
         \/ D_put_statePut(s)
         \/ D_delete(s)
         \/ D_delete_stateDelete(s)
         \/ D_delete_deleteOne(s)

NextFaults == Next \/ BackgroundSettles

Spec == Init /\ [][Next]_vars

SpecFaults == InitFaults /\ [][NextFaults]_vars

\* One process with two concurrent callers and up to MaxClients clients, of
\* either kind, created one after the other; up to MaxFaults store failures.
MaxClients == 2

InitProcess ==
    InitCommon /\ env = [callers |-> 2, faultsLeft |-> MaxFaults, window |-> 0,
                         clientsLeft |-> MaxClients]

\* The callers delete with a file client and read with a document client:
\* delete() calls both accessors and awaits them with Promise.all, get()
\* calls one accessor after the other.
NextProcess ==
    \/ createFileStorageClient(Config("file", Key_testKey, <<>>, <<>>, <<>>))
    \/ createDatabaseStorageClient(Config("db", Key_a768, <<>>, Coll_books, Id_123))
    \/ \E lib \in Libs : InitSettles(lib)
    \/ BackgroundSettles
    \/ \E s \in Slots :
         \/ F_delete(s)
         \/ F_delete_stateDelete(s)
         \/ F_delete_filesDelete(s)
         \/ D_get(s)
         \/ D_get_stateGet(s)
         \/ D_connect(s)
         \/ D_collection(s)
         \/ D_get_findOne(s)

SpecProcess == InitProcess /\ [][NextProcess]_vars

\* One caller and one client, no store failure: the configurations vary.
InitConfig ==
    InitCommon /\ env = [callers |-> 1, faultsLeft |-> 0, window |-> 0, clientsLeft |-> 1]

NextConfig ==
    \/ \E config \in TtlConfigs("file", <<>>, <<>>) \cup KeyConfigs("file", <<>>, <<>>) :
         createFileStorageClient(config)
    \/ \E config \in TtlConfigs("db", Coll_books, Id_123) \cup KeyConfigs("db", Coll_books, Id_123) :
         createDatabaseStorageClient(config)
    \/ \E lib \in Libs : InitSettles(lib)
    \/ Expire
    \/ F_get(1)
    \/ F_exists(1)
    \/ F_get_stateGet(1)
    \/ F_get_filesRead(1)
    \/ F_get_statePut(1)
    \/ F_put(1, Val_testValue)
    \/ F_put_filesWrite(1)
    \/ F_put_statePut(1)
    \/ F_delete(1)
    \/ F_delete_stateDelete(1)
    \/ F_delete_filesDelete(1)
    \/ D_get(1)
    \/ D_exists(1)
    \/ D_get_stateGet(1)
    \/ D_connect(1)
    \/ D_collection(1)
    \/ D_get_findOne(1)
    \/ D_get_statePut(1)
    \/ D_put(1, Doc_testValue)
    \/ D_put_replaceOne(1)
    \/ D_put_statePut(1)
    \/ D_delete(1)
    \/ D_delete_stateDelete(1)
    \/ D_delete_deleteOne(1)

SpecConfig == InitConfig /\ [][NextConfig]_vars

\* Two callers of one client whose get() and put() calls interleave at every
\* await; no store failure, no expiry, values within the size limit.
InitRace ==
    InitCommon /\ env = [callers |-> 2, faultsLeft |-> 0, window |-> 0, clientsLeft |-> 1]

NextRace ==
    \/ createFileStorageClient(Config("file", Key_testKey, <<>>, <<>>, <<>>))
    \/ createDatabaseStorageClient(Config("db", Key_testKey, <<>>, Coll_books, Id_123))
    \/ \E lib \in Libs : InitSettles(lib)
    \/ \E s \in Slots :
         \/ F_get(s)
         \/ F_get_stateGet(s)
         \/ F_get_filesRead(s)
         \/ F_get_statePut(s)
         \/ \E value \in {Val_testValue, Val_other} : F_put(s, value)
         \/ F_put_filesWrite(s)
         \/ F_put_statePut(s)
         \/ D_get(s)
         \/ D_get_stateGet(s)
         \/ D_connect(s)
         \/ D_collection(s)
         \/ D_get_findOne(s)
         \/ D_get_statePut(s)
         \/ \E value \in {Val_testValue, Val_other} : D_put(s, Doc(value))
         \/ D_put_replaceOne(s)
         \/ D_put_statePut(s)

SpecRace == InitRace /\ [][NextRace]_vars

\* Caller 1 calls put(), one call after the other, while caller 2 calls get():
\* a get() runs concurrently with put() calls, no two put() calls overlap.
NextReadWrite ==
    \/ createFileStorageClient(Config("file", Key_testKey, <<>>, <<>>, <<>>))
    \/ createDatabaseStorageClient(Config("db", Key_testKey, <<>>, Coll_books, Id_123))
    \/ \E lib \in Libs : InitSettles(lib)
    \/ \E value \in {Val_testValue, Val_other} : F_put(1, value)
    \/ F_put_filesWrite(1)
    \/ F_put_statePut(1)
    \/ F_get(2)
    \/ F_get_stateGet(2)
    \/ F_get_filesRead(2)
    \/ F_get_statePut(2)
    \/ \E value \in {Val_testValue, Val_other} : D_put(1, Doc(value))
    \/ D_connect(1)
    \/ D_collection(1)
    \/ D_put_replaceOne(1)
    \/ D_put_statePut(1)
    \/ D_get(2)
    \/ D_get_stateGet(2)
    \/ D_connect(2)
    \/ D_collection(2)
    \/ D_get_findOne(2)
    \/ D_get_statePut(2)

SpecReadWrite == InitRace /\ [][NextReadWrite]_vars

\* Caller 1 calls put() and delete(), one call after the other, while caller
\* 2 calls get(); no put() overlaps a get(), so that a get() runs
\* concurrently with nothing but delete() calls.  Cached entries can expire.
PutRunning == ops[1].op = "put" /\ IsRunning(ops[1])

NextReadDelete ==
    \/ createFileStorageClient(Config("file", Key_testKey, <<>>, <<>>, <<>>))
    \/ createDatabaseStorageClient(Config("db", Key_testKey, <<>>, Coll_books, Id_123))
    \/ \E lib \in Libs : InitSettles(lib)
    \/ Expire
    \/ ~IsRunning(ops[2]) /\ F_put(1, Val_testValue)
    \/ F_put_filesWrite(1)
    \/ F_put_statePut(1)
    \/ F_delete(1)
    \/ F_delete_stateDelete(1)
    \/ F_delete_filesDelete(1)
    \/ ~PutRunning /\ F_get(2)
    \/ F_get_stateGet(2)
    \/ F_get_filesRead(2)
    \/ F_get_statePut(2)
    \/ ~IsRunning(ops[2]) /\ D_put(1, Doc_testValue)
    \/ D_connect(1)
    \/ D_collection(1)
    \/ D_put_replaceOne(1)
    \/ D_put_statePut(1)
    \/ D_delete(1)
    \/ D_delete_stateDelete(1)
    \/ D_delete_deleteOne(1)
    \/ ~PutRunning /\ D_get(2)
    \/ D_get_stateGet(2)
    \/ D_connect(2)
    \/ D_collection(2)
    \/ D_get_findOne(2)
    \/ D_get_statePut(2)

SpecReadDelete == InitRace /\ [][NextReadDelete]_vars

\* A process that creates up to MaxClients clients, one after the other, with
\* different keys and, for document clients, different document identifiers
\* in one collection; each client is called while it is the current one, and
\* the stores keep what the clients before it left; cached entries can expire.
\* No store failure.
Key_otherKey == Lit(<<111, 116, 104, 101, 114, 75, 101, 121>>)

IsolationConfigs(kind) ==
    IF kind = "file"
    THEN { Config("file", Key_testKey, <<>>, <<>>, <<>>),
           Config("file", Key_otherKey, <<>>, <<>>, <<>>) }
    ELSE { Config("db", Key_testKey, <<>>, Coll_books, Id_123),
           Config("db", Key_otherKey, <<>>, Coll_books, Id_other) }

AnotherKey(config) == client.kind = "none" \/ config.key # client.config.key

InitIsolation ==
    InitCommon
    /\ env = [callers |-> 1, faultsLeft |-> 0, window |-> 0, clientsLeft |-> MaxClients]

NextIsolation ==
    \/ \E config \in IsolationConfigs("file") :
         AnotherKey(config) /\ createFileStorageClient(config)
    \/ \E config \in IsolationConfigs("db") :
         AnotherKey(config) /\ createDatabaseStorageClient(config)
    \/ \E lib \in Libs : InitSettles(lib)
    \/ Expire
    \/ F_get(1)
    \/ F_exists(1)
    \/ F_get_stateGet(1)
    \/ F_get_filesRead(1)
    \/ F_get_statePut(1)
    \/ \E value \in {Val_testValue, Val_other} : F_put(1, value)
    \/ F_put_filesWrite(1)
    \/ F_put_statePut(1)
    \/ F_delete(1)
    \/ F_delete_stateDelete(1)
    \/ F_delete_filesDelete(1)
    \/ D_get(1)
    \/ D_exists(1)
    \/ D_get_stateGet(1)
    \/ D_connect(1)
    \/ D_collection(1)
    \/ D_get_findOne(1)
    \/ D_get_statePut(1)
    \/ \E data \in {Doc_testValue, Doc(Val_other), Doc_ownId} : D_put(1, data)
    \/ D_put_replaceOne(1)
    \/ D_put_statePut(1)
    \/ D_delete(1)
    \/ D_delete_stateDelete(1)
    \/ D_delete_deleteOne(1)

SpecIsolation == InitIsolation /\ [][NextIsolation]_vars

\* One caller of the key-addressed functions and of a string client on the
\* same key; no store failure; hist keeps the call before the last.
InitLegacy ==
    InitCommon /\ env = [callers |-> 1, faultsLeft |-> 0, window |-> 1, clientsLeft |-> 1]

NextLegacy ==
    \/ createFileStorageClient(Config("file", Key_testKey, <<>>, <<>>, <<>>))
    \/ \E lib \in Libs : InitSettles(lib)
    \/ Expire
    \/ \E key \in {Key_testKey, Key_a769} : L_get(1, key)
    \/ L_get_stateGet(1)
    \/ L_get_filesRead(1)
    \/ L_get_statePut(1)
    \/ \E key \in {Key_testKey, Key_a769} : \E value \in {Val_empty, Val_testValue} :
         L_put(1, key, value)
    \/ L_put_filesWrite(1)
    \/ L_put_statePut(1)
    \/ F_get(1)
    \/ F_get_stateGet(1)
    \/ F_get_filesRead(1)
    \/ F_get_statePut(1)
    \/ \E value \in {Val_empty, Val_testValue} : F_put(1, value)
    \/ F_put_filesWrite(1)
    \/ F_put_statePut(1)

SpecLegacy == InitLegacy /\ [][NextLegacy]_vars

(***************************************************************************)
(* Vocabulary of the properties: what a call did, read off its event log.  *)
(***************************************************************************)
Completed(o) == o.pc = "done"

Calls(o, fn) == {i \in DOMAIN o.ev : o.ev[i].e = "call" /\ o.ev[i].fn = fn}

Rets(o, fn) == {i \in DOMAIN o.ev : o.ev[i].e = "ret" /\ o.ev[i].fn = fn}

DurableRead == IF client.kind = "file" THEN "filesLib.read" ELSE "collection.findOne"

DurableWrite == IF client.kind = "file" THEN "filesLib.write" ELSE "collection.replaceOne"

DurableDelete == IF client.kind = "file" THEN "filesLib.delete" ELSE "collection.deleteOne"

\* The bytes a value takes in the fast tier: the string, or the document's JSON
Serialized(v) == IF client.kind = "file" THEN v ELSE JSON_stringify(v)

WithinLimit(v) == ByteLength(Serialized(v)) <= 1048576

\* The fast tier answered the call's read with a value.
FastHit(o) == \E i \in Rets(o, "stateLib.get") : o.ev[i].a[1] = "value"

FastMiss(o) == \E i \in Rets(o, "stateLib.get") : o.ev[i].a[1] = "undefined"

\* put(v) returned normally.
PutReturned(o) == o.op = "put" /\ o.out = Returned(<<>>)

LastOf(h) == h[Len(h)]

\* The item before the last one.
SecondLastOf(h) == h[Len(h) - 1]

(***************************************************************************)
(* C1  Round-trip.  After a put(v) that returned, v within 1 MiB when       *)
(* serialized, the get() called next returns v, and the get() called after *)
(* that one is answered by the fast tier and reads no durable tier.        *)
(***************************************************************************)
C1_RoundTrip ==
    /\ ( /\ Len(hist) >= 1
         /\ PutReturned(LastOf(hist))
         /\ WithinLimit(LastOf(hist).arg[1])
         /\ cur.op = "get" /\ Completed(cur) )
       => cur.out = Returned(LastOf(hist).arg)
    /\ ( /\ Len(hist) >= 2
         /\ PutReturned(SecondLastOf(hist))
         /\ WithinLimit(SecondLastOf(hist).arg[1])
         /\ LastOf(hist).op = "get"
         /\ cur.op = "get" /\ Completed(cur) )
       => /\ FastHit(cur)
          /\ Calls(cur, DurableRead) = {}
          /\ cur.out = Returned(SecondLastOf(hist).arg)

\* put(v), get(), get() were called in a row, v at the 1 MiB limit.
C1_Witness ==
    /\ Len(hist) >= 2
    /\ PutReturned(SecondLastOf(hist))
    /\ ByteLength(Serialized(SecondLastOf(hist).arg[1])) = 1048576
    /\ LastOf(hist).op = "get" /\ LastOf(hist).out = Returned(SecondLastOf(hist).arg)
    /\ cur.op = "get" /\ Completed(cur) /\ FastHit(cur)

(***************************************************************************)
(* C2  Oversized get-after-put.  After a put(v) that returned, v above     *)
(* 1 MiB when serialized, the get() called next reads the durable tier,    *)
(* returns v and writes no fast tier, whatever the tiers held before.      *)
(***************************************************************************)
C2_OversizedGetAfterPut ==
    ( /\ Len(hist) >= 1
      /\ PutReturned(LastOf(hist))
      /\ ~WithinLimit(LastOf(hist).arg[1])
      /\ cur.op = "get" /\ Completed(cur) )
    => /\ Rets(cur, DurableRead) # {}
       /\ cur.out = Returned(LastOf(hist).arg)
       /\ Calls(cur, "stateLib.put") = {}

(***************************************************************************)
(* C3  Oversized put.  A put(v) with v above 1 MiB when serialized issues  *)
(* the durable write once and no fast-tier write, and when no store call   *)
(* fails it returns normally after logging one warning and no error.       *)
(***************************************************************************)
C3_OversizedPut ==
    (cur.op = "put" /\ ~WithinLimit(cur.arg[1]))
    => /\ Calls(cur, "stateLib.put") = {}
       /\ Completed(cur) => /\ Cardinality(Calls(cur, DurableWrite)) = 1
                            /\ cur.out = Returned(<<>>)
                            /\ cur.warns = 1
                            /\ cur.errs = 0

\* A put of 1,048,577 bytes returned.
C3_Witness ==
    /\ cur.op = "put" /\ Completed(cur)
    /\ ByteLength(Serialized(cur.arg[1])) = 1048577
    /\ Calls(cur, DurableWrite) # {}
    /\ cur.out = Returned(<<>>)

(***************************************************************************)
(* C4  Self-healing.  A get() that misses the fast tier and reads a value  *)
(* v from the durable tier returns v; when v is at most 1 MiB it issues    *)
(* exactly one fast-tier write, of v under the client's encoded key with   *)
(* the configured TTL, and the get() called next is a fast-tier hit that   *)
(* reads no durable tier.                                                  *)
(***************************************************************************)
\* The value the client's durable location holds is v.
DurableHolds(v) ==
    IF client.kind = "file"
    THEN \E x \in filesStore : x.path = client.filePath /\ x.data = BufferFrom(v)
    ELSE \E x \in dbStore :
           /\ x.coll = client.config.dbCollection
           /\ FieldOf(x.doc, IdName) = client.config.dbDocumentId
           /\ WithoutField(x.doc, IdName) = v

DurableReturnedValue(o) == \E i \in Rets(o, DurableRead) : o.ev[i].a[1] = "value"

ConfiguredTtl ==
    IF ctor.config.ttl = <<>> THEN Num(31536000) ELSE ctor.config.ttl[1]

SelfHealed(o) ==
    /\ o.op = "get" /\ Completed(o)
    /\ FastMiss(o)
    /\ DurableReturnedValue(o)
    /\ o.out.t = "return" /\ o.out.v # <<>> /\ WithinLimit(o.out.v[1])

C4_SelfHealing ==
    /\ (cur.op = "get" /\ Completed(cur) /\ FastMiss(cur) /\ DurableReturnedValue(cur))
       => /\ cur.out.t = "return"
          /\ cur.out.v # <<>>
          /\ DurableHolds(cur.out.v[1])
          /\ WithinLimit(cur.out.v[1])
             => /\ Cardinality(Calls(cur, "stateLib.put")) = 1
                /\ \A i \in Calls(cur, "stateLib.put") :
                     cur.ev[i].a = <<client.encodedKey, Serialized(cur.out.v[1]),
                                     ConfiguredTtl>>
    /\ (Len(hist) >= 1 /\ SelfHealed(LastOf(hist)) /\ cur.op = "get" /\ Completed(cur))
       => /\ FastHit(cur)
          /\ Calls(cur, DurableRead) = {}
          /\ cur.out = LastOf(hist).out

\* A get() healed the fast tier and the get() after it was served from there.
C4_Witness ==
    /\ Len(hist) >= 1 /\ SelfHealed(LastOf(hist))
    /\ Calls(LastOf(hist), "stateLib.put") # {}
    /\ cur.op = "get" /\ Completed(cur) /\ FastHit(cur)

(***************************************************************************)
(* C5  Not-found.  When the fast tier misses and the durable tier reports  *)
(* the entry or document absent, get() returns undefined and exists()      *)
(* returns false; neither throws.                                          *)
(***************************************************************************)
DurableAbsent(o) ==
    \E i \in Rets(o, DurableRead) :
       o.ev[i].a = IF client.kind = "file" THEN Failed("ERROR_FILE_NOT_EXISTS")
                   ELSE <<"null">>

C5_NotFound ==
    (Completed(cur) /\ FastMiss(cur) /\ DurableAbsent(cur))
    => /\ cur.op = "get" => cur.out = Returned(<<>>)
       /\ cur.op = "exists" => cur.out = Returned(<<FALSE>>)

\* exists() found the key in neither tier.
C5_Witness ==
    /\ cur.op = "exists" /\ Completed(cur)
    /\ FastMiss(cur) /\ DurableAbsent(cur)
    /\ cur.out = Returned(<<FALSE>>)

(***************************************************************************)
(* C6  exists() is get() returning a defined value.  exists() returns true *)
(* exactly when the get() it runs returned a value other than undefined,   *)
(* the empty string included, and it throws exactly when that get() threw. *)
(***************************************************************************)
C6_ExistsIffGetDefined ==
    (cur.op = "exists" /\ Completed(cur))
    => /\ cur.got.t = "return" => cur.out = Returned(<<cur.got.v # <<>>>>)
       /\ cur.got.t = "throw" => cur.out = cur.got

(***************************************************************************)
(* C7  delete() attempts both tiers.  As stated: every delete() issues     *)
(* exactly one fast-tier delete of the encoded key and exactly one         *)
(* durable-tier delete of the client's path or document.                   *)
(***************************************************************************)
IssuedBothDeletes(o) ==
    /\ Cardinality(Calls(o, "stateLib.delete")) = 1
    /\ Cardinality(Calls(o, DurableDelete)) = 1
    /\ \A i \in Calls(o, "stateLib.delete") : o.ev[i].a = <<client.encodedKey>>
    /\ \A i \in Calls(o, DurableDelete) :
         o.ev[i].a = IF client.kind = "file" THEN <<client.filePath>>
                     ELSE <<client.config.dbDocumentId>>

C7_DeleteEveryCall == (cur.op = "delete" /\ Completed(cur)) => IssuedBothDeletes(cur)

\* Acquiring the store handles failed: an init(), connect() or collection().
AcquisitionFailed(o) ==
    \E i \in DOMAIN o.ev :
       /\ o.ev[i].e = "ret"
       /\ o.ev[i].fn \in {"init", "db.connect", "dbClient.collection"}
       /\ o.ev[i].a[1] = "throw"

\* C7, amended: every delete() that acquired its store handles issues exactly
\* one fast-tier delete of the encoded key and exactly one durable-tier delete
\* of the client's path or document, whether or not the key exists and also
\* when one of the two deletes fails; a delete() that could not acquire its
\* handles issues no delete at all.
C7_DeleteBothTiers ==
    /\ (cur.op = "delete" /\ Completed(cur) /\ ~AcquisitionFailed(cur))
       => IssuedBothDeletes(cur)
    /\ (cur.op = "delete" /\ AcquisitionFailed(cur))
       => Calls(cur, "stateLib.delete") = {} /\ Calls(cur, DurableDelete) = {}
    /\ \A i \in Rets(cur, "stateLib.delete") \cup Rets(cur, DurableDelete) :
         cur.op = "delete" => IssuedBothDeletes(cur)

\* A delete() was rejected by the durable tier's delete and had issued both.
C7_Witness ==
    /\ cur.op = "delete" /\ Completed(cur)
    /\ cur.out.t = "throw"
    /\ \E i \in Rets(cur, DurableDelete) : cur.ev[i].a[1] = "throw"
    /\ Calls(cur, "stateLib.delete") # {}
    /\ stateStore = {} /\ filesStore = {} /\ dbStore = {}

(***************************************************************************)
(* C8  Idempotent delete.  With no store failure every delete(), the       *)
(* second of two in a row and one of a key never written included, returns *)
(* normally and leaves no value for the key in either tier.                *)
(***************************************************************************)
NoValueInTiers ==
    /\ StateEntry(client.encodedKey) = {}
    /\ client.kind = "file" => FileEntry(client.filePath) = {}
    /\ client.kind = "db" =>
         DbMatch(client.config.dbCollection, client.config.dbDocumentId) = {}

C8_IdempotentDelete ==
    (cur.op = "delete" /\ Completed(cur))
    => /\ cur.out = Returned(<<>>)
       /\ cur.errs = 0
       /\ NoValueInTiers

\* delete() was called twice in a row.
C8_Witness ==
    /\ Len(hist) >= 1
    /\ LastOf(hist).op = "delete" /\ LastOf(hist).out = Returned(<<>>)
    /\ cur.op = "delete" /\ Completed(cur) /\ cur.out = Returned(<<>>)

(***************************************************************************)
(* C9  Key-size rejection.  A factory throws exactly when the base64url    *)
(* form of the key has more than 1024 characters, 1024 being accepted;     *)
(* when it throws, no store was initialised and no tier call was issued.   *)
(***************************************************************************)
\* base64url without padding: 4 characters per 3 bytes, rounded up
EncodedLength(key) == (4 * ByteLength(key) + 2) \div 3

C9_KeySizeRejection ==
    ctor.outcome # "none"
    => /\ ctor.outcome = "threw" <=> EncodedLength(ctor.config.key) > 1024
       /\ ctor.outcome = "threw"
          => /\ client = NoClient
             /\ \A l \in Libs : libPromise[l] = "undefined"
             /\ \A s \in Slots : ops[s] = IdleOp
             /\ stateStore = {} /\ filesStore = {} /\ dbStore = {}
       /\ ctor.outcome = "returned" => StrLength(client.encodedKey) <= 1024

\* A factory threw for a key that encodes to 1026 characters.
C9_Witness == ctor.outcome = "threw" /\ EncodedLength(ctor.config.key) = 1026

(***************************************************************************)
(* C10  Write order.  In every put(), failing calls included, a fast-tier  *)
(* write is issued only after the durable write of the same put() has      *)
(* returned successfully.                                                  *)
(***************************************************************************)
C10_WriteOrder ==
    cur.op = "put"
    => \A i \in Calls(cur, "stateLib.put") :
         \E j \in Rets(cur, DurableWrite) : j < i /\ cur.ev[j].a = Ok

\* A put() issued its fast-tier write, which the fast tier then refused.
C10_Witness ==
    /\ cur.op = "put" /\ Completed(cur)
    /\ Calls(cur, "stateLib.put") # {}
    /\ cur.out = Thrown("StatePutError")

(***************************************************************************)
(* C11  Durability before any fast-tier interaction.  In every put() the   *)
(* successful durable write comes before the fast-tier handle is           *)
(* initialised and before the fast-tier write, so a put(v) that fails      *)
(* because of the fast tier alone leaves v in the durable tier.            *)
(***************************************************************************)
FastTierLib == IF client.kind = "file" THEN F_stateLib ELSE D_stateLib

DurableWritten(o, i) == \E j \in Rets(o, DurableWrite) : j < i /\ o.ev[j].a = Ok

FailedRets(o) == {i \in DOMAIN o.ev : o.ev[i].e = "ret" /\ o.ev[i].a[1] = "throw"}

\* The call failed, and the one store call that failed, in this call and in
\* all calls before it, is the fast tier's.
FailedByFastTierOnly(o) ==
    /\ Completed(o) /\ o.out.t = "throw"
    /\ env.faultsLeft = MaxFaults - 1
    /\ Cardinality(FailedRets(o)) = 1
    /\ \A i \in FailedRets(o) :
         \/ o.ev[i].fn = "stateLib.put"
         \/ o.ev[i].fn = "init" /\ o.ev[i].a[2] = "StateInitError"

\* The durable location holds v: the bytes of the string, or a document with
\* the configured identifier and the fields of v.
DurableKeeps(v) ==
    IF client.kind = "file"
    THEN \E x \in filesStore : x.path = client.filePath /\ x.data = BufferFrom(v)
    ELSE \E x \in DbMatch(client.config.dbCollection, client.config.dbDocumentId) :
           \A i \in DOMAIN v :
              v[i].k # IdName => HasField(x.doc, v[i].k) /\ FieldOf(x.doc, v[i].k) = v[i].v

C11_DurabilityFirst ==
    cur.op = "put"
    => /\ \A i \in Calls(cur, "init") :
            cur.ev[i].a = <<FastTierLib>> => DurableWritten(cur, i)
       /\ \A i \in Calls(cur, "stateLib.put") : DurableWritten(cur, i)
       /\ FailedByFastTierOnly(cur) => DurableKeeps(cur.arg[1])

(***************************************************************************)
(* C12  Read order.  In every get(), and in the get() inside exists(), the *)
(* durable tier is accessed only after the fast-tier read of the same call *)
(* returned a miss; on a fast-tier hit the call returns the cached value   *)
(* and issues no durable-tier access and no fast-tier write.               *)
(***************************************************************************)
\* Calls on the durable tier: its initialisation, connection and read.
DurableAccesses(o) ==
    {i \in DOMAIN o.ev :
       /\ o.ev[i].e = "call"
       /\ \/ o.ev[i].fn \in {DurableRead, "db.connect", "dbClient.collection"}
          \/ o.ev[i].fn = "init" /\ o.ev[i].a[1] \in {F_filesLib, D_dbLib}}

\* What get() answered: the call's own outcome, or the one exists() awaited.
GetOutcome(o) == IF o.op = "exists" THEN o.got ELSE o.out

C12_ReadOrder ==
    cur.op \in {"get", "exists"}
    => /\ \A i \in DurableAccesses(cur) :
            \E j \in Rets(cur, "stateLib.get") : j < i /\ cur.ev[j].a = <<"undefined">>
       /\ \A j \in Rets(cur, "stateLib.get") :
            cur.ev[j].a[1] = "value"
            => /\ Completed(cur)
               /\ GetOutcome(cur).t = "return"
               /\ GetOutcome(cur).v # <<>>
               /\ Serialized(GetOutcome(cur).v[1]) = cur.ev[j].a[2]
               /\ DurableAccesses(cur) = {}
               /\ Calls(cur, "stateLib.put") = {}

\* A get() was answered by the fast tier while the durable tier held the value.
C12_Witness ==
    /\ cur.op = "get" /\ Completed(cur) /\ FastHit(cur)
    /\ cur.out.t = "return" /\ cur.out.v # <<>>
    /\ DurableKeeps(cur.out.v[1])
    /\ env.faultsLeft < MaxFaults

(***************************************************************************)
(* C13  Document round-trip.  For the document client, the get() called    *)
(* after a put(d) that returned yields d itself, with no identifier field  *)
(* added, whether the fast tier answers it or, the cached entry having     *)
(* expired, the durable tier does.                                         *)
(***************************************************************************)
C13_DocumentRoundTrip ==
    (client.kind = "db" /\ cur.op = "get" /\ Completed(cur))
    => /\ (Len(hist) >= 1 /\ PutReturned(LastOf(hist)))
          => cur.out = Returned(LastOf(hist).arg)
       /\ (Len(hist) >= 2 /\ PutReturned(SecondLastOf(hist)) /\ LastOf(hist).op = "expire")
          => cur.out = Returned(SecondLastOf(hist).arg)

(***************************************************************************)
(* C18  Asymmetric partial failure.  When the durable write of put(v)      *)
(* succeeded and the fast-tier write failed, put() throws the fast tier's  *)
(* error after logging it once, issues nothing after the failure, no       *)
(* second write and no delete, and, no other store call having failed,     *)
(* the durable tier holds v.                                               *)
(***************************************************************************)
FastWriteFailed(o) ==
    /\ o.op = "put" /\ Completed(o)
    /\ \E j \in Rets(o, DurableWrite) : o.ev[j].a = Ok
    /\ \E i \in Rets(o, "stateLib.put") : o.ev[i].a[1] = "throw"

C18_AsymmetricFailure ==
    FastWriteFailed(cur)
    => /\ cur.out = Thrown("StatePutError")
       /\ cur.errs = 1
       /\ cur.ev[Len(cur.ev)] = Ret("stateLib.put", Failed("StatePutError"))
       /\ Cardinality(Calls(cur, DurableWrite)) = 1
       /\ Cardinality(Calls(cur, "stateLib.put")) = 1
       /\ Calls(cur, DurableDelete) = {} /\ Calls(cur, "stateLib.delete") = {}
       /\ env.faultsLeft = MaxFaults - 1 => DurableKeeps(cur.arg[1])

\* A put() failed in the fast tier after its durable write, as the only failure.
C18_Witness ==
    /\ FastWriteFailed(cur)
    /\ env.faultsLeft = MaxFaults - 1
    /\ cur.out.t = "throw"
    /\ DurableKeeps(cur.arg[1])

(***************************************************************************)
(* C19  No automatic retry.  One call of get(), exists(), put() or         *)
(* delete() issues each tier operation at most once, also when a tier call *)
(* fails.                                                                  *)
(***************************************************************************)
TierOperations ==
    {"stateLib.get", "stateLib.put", "stateLib.delete",
     "filesLib.read", "filesLib.write", "filesLib.delete",
     "collection.findOne", "collection.replaceOne", "collection.deleteOne"}

C19_NoRetry == \A fn \in TierOperations : Cardinality(Calls(cur, fn)) <= 1

\* A get() ended with the failure of its durable read.
C19_Witness ==
    /\ cur.op = "get" /\ Completed(cur) /\ cur.out.t = "throw"
    /\ \E i \in Rets(cur, DurableRead) : cur.ev[i].a[1] = "throw"
    /\ Cardinality(Calls(cur, DurableRead)) = 1

(***************************************************************************)
(* C20  Size policy.  Every fast-tier write carries at most 1,048,576      *)
(* bytes, and put() and the self-healing get() decide alike for the same   *)
(* stored value: the get() that reads from the durable tier what the put() *)
(* before it stored writes the fast tier exactly when that put() did.      *)
(***************************************************************************)
C20_SizePolicy ==
    /\ \A i \in Calls(cur, "stateLib.put") : ByteLength(cur.ev[i].a[2]) <= 1048576
    /\ (cur.op = "get" /\ Completed(cur) /\ DurableReturnedValue(cur))
       => /\ (Len(hist) >= 1 /\ PutReturned(LastOf(hist)))
             => (Calls(cur, "stateLib.put") # {}
                 <=> Calls(LastOf(hist), "stateLib.put") # {})
          /\ (Len(hist) >= 2 /\ PutReturned(SecondLastOf(hist))
                             /\ LastOf(hist).op = "expire")
             => (Calls(cur, "stateLib.put") # {}
                 <=> Calls(SecondLastOf(hist), "stateLib.put") # {})

\* C20 for the file client, whose put() and get() measure the same string.
C20_FileClient ==
    client.kind = "file" => C20_SizePolicy

(***************************************************************************)
(* C17  Error propagation.  In get(), exists(), put() and delete() every   *)
(* failure of a store initialisation or tier call, durable not-found       *)
(* excepted, makes the call throw that very error after logging it once;   *)
(* none is swallowed or turned into a normal return.                       *)
(***************************************************************************)
IsNotFound(event) ==
    event.fn = "filesLib.read" /\ event.a = Failed("ERROR_FILE_NOT_EXISTS")

C17_ErrorPropagation ==
    Completed(cur)
    => \A i \in FailedRets(cur) :
         ~IsNotFound(cur.ev[i])
         => /\ cur.out = Thrown(cur.ev[i].a[2])
            /\ cur.errs = 1

\* C17 for calls in which a single store call failed.
C17_SingleFailure ==
    (Completed(cur) /\ Cardinality(FailedRets(cur)) = 1) => C17_ErrorPropagation

(***************************************************************************)
(* Vocabulary of the claims on the store handles.                          *)
(***************************************************************************)
\* The cached promises of the module of the client in use.
ClientLibs ==
    IF client.kind = "file" THEN {F_stateLib, F_filesLib}
    ELSE IF client.kind = "db" THEN {D_stateLib, D_dbLib}
    ELSE {}

\* The cached promises a running call is awaiting.
AwaitedLibs(o) ==
    IF ~IsRunning(o) THEN {}
    ELSE IF o.pc \in {"delete:Promise.all(libs)", "Promise.all(libs)"} THEN o.pend
    ELSE IF o.pc \in {"get:getStateLib", "put:getStateLib"}
    THEN {IF client.kind = "file" THEN F_stateLib ELSE D_stateLib}
    ELSE IF o.pc \in {"get:getFilesLib", "put:getFilesLib"} THEN {F_filesLib}
    ELSE IF o.pc = "get:getDbLib" THEN {D_dbLib}
    ELSE {}

\* The events a step added to the record of caller s.
NewEvents(s) ==
    IF IsRunning(ops[s]) THEN (Len(ops[s].ev) + 1)..Len(ops'[s].ev)
    ELSE IF IsRunning(ops'[s]) THEN 1..Len(ops'[s].ev)
    ELSE {}

\* The callers whose call invoked init() of lib in the step.
InvokedInit(lib) ==
    {s \in Slots : \E i \in NewEvents(s) : ops'[s].ev[i] = Call("init", <<lib>>)}

\* The callers whose call received result r from the promise of lib in the step.
Received(lib, r) ==
    {s \in Slots : \E i \in NewEvents(s) : ops'[s].ev[i] = Ret("init", r)}

InitError(lib) ==
    IF lib \in {F_stateLib, D_stateLib} THEN "StateInitError"
    ELSE IF lib = F_filesLib THEN "FilesInitError" ELSE "DbInitError"

Awaiting(lib) == {s \in Slots : lib \in AwaitedLibs(ops[s])}

(***************************************************************************)
(* C14  Single initialisation under concurrent first use.  A call invokes  *)
(* init() of a store only when the accessor finds no cached promise, and   *)
(* the promise is cached in the same step; every accessor call made while  *)
(* the promise is pending awaits that promise without invoking init(), and *)
(* all the awaiting calls receive the handle in the step that resolves it; *)
(* a resolved promise stays cached, so init() is never invoked again.      *)
(***************************************************************************)
C14_SingleInitialisation ==
    [][/\ \A lib \in Libs :
            libPromise[lib] = "resolved" => libPromise'[lib] = "resolved"
       /\ \A lib \in ClientLibs :
            /\ Cardinality(InvokedInit(lib)) <= 1
            /\ InvokedInit(lib) # {}
               => libPromise[lib] = "undefined" /\ libPromise'[lib] = "pending"
            /\ (libPromise[lib] = "pending" /\ libPromise'[lib] = "resolved")
               => Received(lib, <<"ok", lib>>) = Awaiting(lib)
            /\ Received(lib, <<"ok", lib>>) # {}
               => libPromise[lib] = "pending" /\ libPromise'[lib] = "resolved"]_vars

\* Two calls await the same pending initialisation, which one of them invoked.
C14_Witness ==
    \E lib \in Libs :
      /\ libPromise[lib] = "pending"
      /\ Awaiting(lib) = Slots
      /\ Cardinality({s \in Slots : \E i \in DOMAIN ops[s].ev :
                         ops[s].ev[i] = Call("init", <<lib>>)}) = 1

\* The callers that start awaiting the promise of lib in the step.
StartsAwaiting(lib) ==
    {s \in Slots : lib \in AwaitedLibs(ops'[s]) /\ lib \notin AwaitedLibs(ops[s])}

(***************************************************************************)
(* C15  Retry after failed initialisation.  When init() of a store fails,  *)
(* every call awaiting it receives the error, in the step that clears the  *)
(* cached promise; the cache is cleared by a failing init() only, and only *)
(* of the pending promise of that init(); no call ever awaits a promise    *)
(* that is not pending, and a call that needs the handle while the cache   *)
(* is empty invokes init() afresh.                                         *)
(***************************************************************************)
C15_RetryAfterFailedInit ==
    [][\A lib \in ClientLibs :
         /\ (libPromise[lib] = "pending" /\ libPromise'[lib] = "undefined")
            => Received(lib, Failed(InitError(lib))) = Awaiting(lib)
         /\ Received(lib, Failed(InitError(lib))) # {}
            => libPromise[lib] = "pending" /\ libPromise'[lib] = "undefined"
         /\ (libPromise[lib] # "undefined" /\ libPromise'[lib] = "undefined")
            => libPromise[lib] = "pending" /\ env'.faultsLeft = env.faultsLeft - 1
         /\ \A s \in StartsAwaiting(lib) :
              /\ libPromise'[lib] = "pending"
              /\ libPromise[lib] = "undefined" => s \in InvokedInit(lib)]_vars

\* One call was rejected by a failed init(); a later call invoked init() of
\* the same store again and received the handle.
C15_Witness ==
    \E lib \in ClientLibs : \E s, t \in Slots :
      /\ ops[s].out = Thrown(InitError(lib))
      /\ \E i \in DOMAIN ops[s].ev : ops[s].ev[i] = Ret("init", Failed(InitError(lib)))
      /\ \E i, j \in DOMAIN ops[t].ev :
           /\ i < j
           /\ ops[t].ev[i] = Call("init", <<lib>>)
           /\ ops[t].ev[j] = Ret("init", <<"ok", lib>>)
      /\ libPromise[lib] = "resolved"

(***************************************************************************)
(* C16  Process-wide singleton.  The fast-tier store is successfully       *)
(* initialised at most once in the process: at most one cached promise of  *)
(* a fast-tier handle is resolved, whichever kinds of client were used and *)
(* in whichever order.                                                     *)
(***************************************************************************)
C16_ProcessWideSingleton ==
    Cardinality({lib \in {F_stateLib, D_stateLib} : libPromise[lib] = "resolved"}) <= 1

(***************************************************************************)
(* C24  One key per client.  The client keeps the configuration it was     *)
(* constructed with, and every tier operation of every call targets the    *)
(* encoded key of that configuration in the fast tier and, in the durable  *)
(* tier, the path derived from the raw key or the configured collection    *)
(* and document identifier.                                                *)
(***************************************************************************)
OnTarget(event) ==
    IF event.fn \in {"stateLib.get", "stateLib.put", "stateLib.delete"}
    THEN event.a[1] = encodeKey(fullConfig(ctor.config).key).value
    ELSE IF event.fn \in {"filesLib.read", "filesLib.write", "filesLib.delete"}
    THEN event.a[1] = ctor.config.key \o DotJson
    ELSE IF event.fn = "dbClient.collection"
    THEN event.a[1] = ctor.config.dbCollection
    ELSE IF event.fn \in {"collection.findOne", "collection.replaceOne",
                          "collection.deleteOne"}
    THEN event.a[1] = ctor.config.dbDocumentId
    ELSE TRUE

C24_OneKeyPerClient ==
    /\ ctor.outcome = "returned" => client.config = fullConfig(ctor.config)
    /\ \A s \in Slots : \A i \in DOMAIN ops[s].ev :
         ops[s].ev[i].e = "call" => OnTarget(ops[s].ev[i])

\* A get() that read the fast tier, read the durable tier and wrote the fast tier.
C24_Witness ==
    /\ cur.op = "get" /\ Completed(cur)
    /\ Calls(cur, "stateLib.get") # {}
    /\ Calls(cur, DurableRead) # {}
    /\ Calls(cur, "stateLib.put") # {}

(***************************************************************************)
(* C28  Fast-tier read failure does not fall back.  When the fast-tier     *)
(* read of get() fails, get() throws that error after logging it once and  *)
(* issues no durable-tier read and no fast-tier write, also when the       *)
(* durable tier holds the value; exists(), which awaits get(), throws too. *)
(***************************************************************************)
FastReadFailed(o) ==
    \E i \in Rets(o, "stateLib.get") : o.ev[i].a = Failed("StateGetError")

C28_NoFallbackOnReadFailure ==
    (cur.op \in {"get", "exists"} /\ Completed(cur) /\ FastReadFailed(cur))
    => /\ cur.out = Thrown("StateGetError")
       /\ cur.errs = 1
       /\ Calls(cur, DurableRead) = {}
       /\ Calls(cur, "stateLib.put") = {}
       /\ Cardinality(Calls(cur, "stateLib.get")) = 1

\* A get() whose fast-tier read failed while the durable tier held a value.
C28_Witness ==
    /\ cur.op = "get" /\ Completed(cur) /\ FastReadFailed(cur)
    /\ \/ client.kind = "file" /\ FileEntry(client.filePath) # {}
       \/ client.kind = "db" /\ DbMatch(client.config.dbCollection,
                                        client.config.dbDocumentId) # {}

(***************************************************************************)
(* C29  Not-found is suppressed, not reported.  A get() or exists() that   *)
(* ends with the durable tier reporting the entry absent neither throws    *)
(* nor writes an error log entry; an error log entry is written only by a  *)
(* call that throws.                                                       *)
(***************************************************************************)
C29_NotFoundSuppressed ==
    Completed(cur)
    => /\ DurableAbsent(cur) => cur.out.t = "return" /\ cur.errs = 0
       /\ cur.errs > 0 => cur.out.t = "throw"

\* C29 for the document client, whose get() tests the result of findOne.
C29_DocumentClient ==
    client.kind = "db" => C29_NotFoundSuppressed

(***************************************************************************)
(* C30  Durable document identity.  The document a put(data) of the        *)
(* document client hands to replaceOne has its _id equal to the configured *)
(* document identifier, the one of the filter, and its other fields are    *)
(* those of data, whatever fields data has.                                *)
(***************************************************************************)
C30_DurableDocumentIdentity ==
    (client.kind = "db" /\ cur.op = "put")
    => \A i \in Calls(cur, "collection.replaceOne") :
         LET filter == cur.ev[i].a[1]
             doc == cur.ev[i].a[2]
         IN  /\ filter = client.config.dbDocumentId
             /\ HasField(doc, IdName)
             /\ FieldOf(doc, IdName) = filter
             /\ WithoutField(doc, IdName) = WithoutField(cur.arg[1], IdName)

\* C30 for data without an _id of its own.
C30_NoOwnId ==
    (cur.op = "put" /\ cur.arg # <<>> /\ client.kind = "db" /\ ~HasField(cur.arg[1], IdName))
    => C30_DurableDocumentIdentity

(***************************************************************************)
(* C21  TTL.  Every fast-tier write of a client, from put() and from the   *)
(* self-healing get(), passes the caller's ttl when the caller supplied    *)
(* one, and 31,536,000 seconds when the caller supplied none: the property *)
(* omitted, or written out as undefined.                                   *)
(***************************************************************************)
SuppliedTtl ==
    IF ctor.config.ttl = <<>> \/ ctor.config.ttl = <<Undefined>>
    THEN Num(31536000)
    ELSE ctor.config.ttl[1]

C21_Ttl ==
    \A i \in Calls(cur, "stateLib.put") : cur.ev[i].a[3] = SuppliedTtl

\* C21 for a ttl that is omitted or a number.
C21_OmittedOrNumber ==
    ctor.config.ttl # <<Undefined>> => C21_Ttl

(***************************************************************************)
(* C27  Storage-safe encoded key.  A factory returns a client exactly when *)
(* the encoded form of the raw key satisfies the fast tier's constraint on *)
(* keys, /^[a-zA-Z0-9-_.]{1,1024}$/, and the client's encoded key is that  *)
(* form; otherwise the factory throws.                                     *)
(***************************************************************************)
KeyCharacter(cp) ==
    cp \in (48..57) \cup (65..90) \cup (97..122) \cup {45, 95, 46}

StorageSafe(k) ==
    /\ StrLength(k) >= 1
    /\ StrLength(k) <= 1024
    /\ \A i \in DOMAIN k : \A j \in DOMAIN k[i].u : KeyCharacter(k[i].u[j])

C27_StorageSafeKey ==
    /\ ctor.outcome = "returned"
       => client.encodedKey = base64url_encode(ctor.config.key) /\ StorageSafe(client.encodedKey)
    /\ ctor.outcome = "threw" => ~StorageSafe(base64url_encode(ctor.config.key))

\* C27 for the keys that are not empty.
C27_NonEmptyKey ==
    ctor.config.key # Key_empty => C27_StorageSafeKey

(***************************************************************************)
(* Vocabulary of the claims on concurrent calls.                           *)
(***************************************************************************)
\* The fast tier's entry of the client's key agrees with the durable tier.
FastAgreesWithDurable ==
    \A x \in StateEntry(client.encodedKey) :
      IF client.kind = "file"
      THEN \E f \in FileEntry(client.filePath) : BufferToString(f.data) = x.value
      ELSE \E d \in DbMatch(client.config.dbCollection, client.config.dbDocumentId) :
             JSON_stringify(WithoutField(d.doc, IdName)) = x.value

AllCompleted == \A s \in Slots : ~IsRunning(ops[s])

(***************************************************************************)
(* C22  Safe interleaving of get() and put().  Once all the concurrent     *)
(* get() and put() calls on the client have completed, the fast tier holds *)
(* no entry for the key or the value the durable tier holds.               *)
(***************************************************************************)
C22_SafeInterleaving ==
    AllCompleted => FastAgreesWithDurable

\* The last call of fn in the record o.
LastCall(o, fn) ==
    o.ev[CHOOSE i \in Calls(o, fn) : \A j \in Calls(o, fn) : j <= i]

\* The callers whose call of fn was applied by the store in the step.
Applied(fn) ==
    {s \in Slots : \E i \in NewEvents(s) :
                      /\ ops'[s].ev[i].e = "ret"
                      /\ ops'[s].ev[i].fn = fn
                      /\ ops'[s].ev[i].a[1] = "ok"}

\* What the tiers hold for the client.
FastValues == {x.value : x \in StateEntry(client.encodedKey)}

DurableValues ==
    IF client.kind = "file"
    THEN {BufferToString(f.data) : f \in FileEntry(client.filePath)}
    ELSE {WithoutField(d.doc, IdName) :
            d \in DbMatch(client.config.dbCollection, client.config.dbDocumentId)}

(***************************************************************************)
(* C23  Concurrent puts are last-write-wins per tier.  Each tier changes   *)
(* only when it applies a write, and then holds the value of that write,   *)
(* whatever the other tier holds; so once concurrent put(a) and put(b)     *)
(* have both returned, each tier holds a or b, the one it applied last,    *)
(* and the calls issued one write per tier and nothing else.               *)
(***************************************************************************)
C23_LastWriteWinsPerTier ==
    [][/\ \A s \in Applied(DurableWrite) :
            DurableValues' = {IF client.kind = "file"
                              THEN LastCall(ops'[s], DurableWrite).a[2]
                              ELSE WithoutField(LastCall(ops'[s], DurableWrite).a[2], IdName)}
       /\ \A s \in Applied("stateLib.put") :
            FastValues' = {LastCall(ops'[s], "stateLib.put").a[2]}
       /\ DurableValues' # DurableValues => Applied(DurableWrite) # {}
       /\ FastValues' # FastValues => Applied("stateLib.put") # {}
       /\ (PutReturned(ops'[1]) /\ PutReturned(ops'[2]))
          => /\ DurableValues' \subseteq {ops'[1].arg[1], ops'[2].arg[1]}
             /\ FastValues' \subseteq {Serialized(ops'[1].arg[1]), Serialized(ops'[2].arg[1])}
             /\ \A s \in Slots :
                  /\ Cardinality(Calls(ops'[s], DurableWrite)) = 1
                  /\ Cardinality(Calls(ops'[s], "stateLib.put")) = 1
                  /\ Calls(ops'[s], DurableRead) = {}
                  /\ Calls(ops'[s], "stateLib.get") = {}]_vars

\* put(a) and put(b) have both returned and the tiers disagree: the durable
\* tier holds the value of one call, the fast tier the value of the other.
C23_Witness ==
    /\ PutReturned(ops[1]) /\ PutReturned(ops[2])
    /\ ops[1].arg # ops[2].arg
    /\ \E s, t \in Slots :
         /\ s # t
         /\ DurableValues = {ops[s].arg[1]}
         /\ FastValues = {Serialized(ops[t].arg[1])}

(***************************************************************************)
(* C25: key-size rejection in the key-addressed functions.  When the       *)
(* encoded key is longer than 1024 characters, get(key) and put(key,       *)
(* value) reject with the size error before any I/O: no store is           *)
(* initialised, and no fast-tier or durable read or write is issued.       *)
(***************************************************************************)
KeyAddressed(o) == o.op \in {"get(key)", "put(key, value)"}

OverlongKey(o) ==
    KeyAddressed(o) /\ StrLength(base64url_encode(o.arg[1])) > MAX_KEY_SIZE

RejectedBeforeIO(o) ==
    /\ o.ev = <<>>
    /\ Completed(o)
    /\ o.out.t = "throw"
    /\ o.out.v[1] = KeyTooLong

C25_KeySizeRejection == OverlongKey(cur) => RejectedBeforeIO(cur)

\* put(key, value) encodes the key first: its part of C25 holds.
C25_PutRejectsBeforeIO ==
    (OverlongKey(cur) /\ cur.op = "put(key, value)") => RejectedBeforeIO(cur)

\* get(key) encodes the key after `await getStateLib()`: once the store is
\* initialised, an overlong key is rejected with no further call.
C25_GetRejectsAfterInit ==
    (OverlongKey(cur) /\ cur.op = "get(key)")
    => /\ \A i \in DOMAIN cur.ev : cur.ev[i].fn = "init"
       /\ Completed(cur) => cur.out.t = "throw" /\ cur.out.v[1] = KeyTooLong

(***************************************************************************)
(* C26: the empty string is a cache hit.  When the fast tier holds an      *)
(* entry for the key whose value is the empty string, get() of the string  *)
(* client and get(key) return the empty string and issue no durable read.  *)
(***************************************************************************)
\* o is a completed get whose fast-tier read returned an entry holding ''
FastTierHeldEmpty(o) ==
    /\ o.op \in {"get", "get(key)"}
    /\ Completed(o)
    /\ \E i \in Rets(o, "stateLib.get") :
         o.ev[i].a[1] = "value" /\ o.ev[i].a[2] = Val_empty

ReturnedEmptyFromCache(o) ==
    /\ o.out.t = "return"
    /\ o.out.v = <<Val_empty>>
    /\ Calls(o, "filesLib.read") = {}
    /\ \A i \in DOMAIN o.ev : o.ev[i].fn \in {"init", "stateLib.get"}

C26_EmptyStringIsHit ==
    /\ FastTierHeldEmpty(cur) => ReturnedEmptyFromCache(cur)
    /\ \A i \in DOMAIN hist : FastTierHeldEmpty(hist[i]) => ReturnedEmptyFromCache(hist[i])

\* get() of the string client, then get(key), both served '' from the fast tier
C26_Witness ==
    /\ cur.op = "get(key)"
    /\ FastTierHeldEmpty(cur)
    /\ ReturnedEmptyFromCache(cur)
    /\ hist # <<>>
    /\ LastOf(hist).op = "get"
    /\ FastTierHeldEmpty(LastOf(hist))
    /\ ReturnedEmptyFromCache(LastOf(hist))

(***************************************************************************)
(* C31: a failed durable write leaves the cache untouched.  When the       *)
(* durable write of put(v), or the durable store's initialisation or       *)
(* connection, fails, put() rejects and issues no fast-tier write; a put() *)
(* changes the fast tier by nothing but a fast-tier write, so the entry    *)
(* of the key is unchanged.                                                *)
(***************************************************************************)
DurableSideFailed(o) ==
    /\ o.op = "put" /\ Completed(o)
    /\ \E i \in FailedRets(o) :
         \/ o.ev[i].fn \in {DurableWrite, "db.connect", "dbClient.collection"}
         \/ o.ev[i].fn = "init" /\ o.ev[i].a[2] \in {"FilesInitError", "DbInitError"}

\* The step is one of the caller's put(): its record or its position moved.
StepOfPut ==
    /\ ops'[1].op = "put"
    /\ ops'[1].pc # ops[1].pc \/ Len(ops'[1].ev) # Len(ops[1].ev)

C31_FailedDurableWrite ==
    [][StepOfPut
       => /\ DurableSideFailed(ops'[1])
             => /\ ops'[1].out.t = "throw"
                /\ Calls(ops'[1], "stateLib.put") = {}
          /\ Calls(ops'[1], "stateLib.put") = {} => stateStore' = stateStore]_vars

\* The durable write of put(v) failed while the fast tier held another value.
C31_Witness ==
    /\ DurableSideFailed(cur)
    /\ \E i \in Rets(cur, DurableWrite) : cur.ev[i].a[1] = "throw"
    /\ cur.out.t = "throw"
    /\ FastValues # {}
    /\ Serialized(cur.arg[1]) \notin FastValues

(***************************************************************************)
(* C32: delete then get.  After a delete() that completed with no call     *)
(* running beside it and no put() after it, get() returns undefined and    *)
(* exists() returns false, whatever the two tiers held before the delete.  *)
(***************************************************************************)
\* The caller's last call was a delete() that returned, and the call after
\* it, a get() or an exists(), has completed.
ReadAfterDelete ==
    /\ cur.op \in {"get", "exists"} /\ Completed(cur)
    /\ hist # <<>>
    /\ LastOf(hist).op = "delete"
    /\ LastOf(hist).out.t = "return"

C32_DeleteThenGet ==
    ReadAfterDelete
    => /\ cur.op = "get" => cur.out = Returned(<<>>)
       /\ cur.op = "exists" => cur.out = Returned(<<FALSE>>)

\* put(v) stored v in both tiers, delete() returned, then get() returned undefined.
C32_Witness ==
    /\ ReadAfterDelete
    /\ cur.op = "get" /\ cur.out = Returned(<<>>)
    /\ Len(hist) >= 2
    /\ PutReturned(SecondLastOf(hist))
    /\ Calls(SecondLastOf(hist), "stateLib.put") # {}

(***************************************************************************)
(* C33: no resurrection by a concurrent read.  When a get() runs           *)
(* concurrently with delete(), in any interleaving of their tier calls,    *)
(* then once both have completed, no put() having been started, neither    *)
(* tier holds a value for the key (and a following get() returns           *)
(* undefined).                                                             *)
(***************************************************************************)
\* The last call of caller 1 is a delete() that returned, the last call of
\* caller 2 a get() that completed.
DeleteAndGetCompleted ==
    /\ ops[1].op = "delete" /\ ops[1].out.t = "return"
    /\ ops[2].op = "get" /\ Completed(ops[2])

C33_NoResurrection == DeleteAndGetCompleted => NoValueInTiers

\* The durable tier is not resurrected: get() writes to the fast tier only.
C33_DurableStaysDeleted ==
    DeleteAndGetCompleted
    => /\ client.kind = "file" => FileEntry(client.filePath) = {}
       /\ client.kind = "db" =>
            DbMatch(client.config.dbCollection, client.config.dbDocumentId) = {}

(***************************************************************************)
(* C34: reads never modify the durable tier.  get() and exists() issue no  *)
(* durable write or delete in any execution, store failures included; the  *)
(* only store mutation they cause is the single self-healing fast-tier     *)
(* write, whose value is the one just read from the durable tier.          *)
(***************************************************************************)
\* The step is one of the caller's get() or exists().
StepOfRead ==
    /\ ops'[1].op \in {"get", "exists"}
    /\ ops'[1].pc # ops[1].pc \/ Len(ops'[1].ev) # Len(ops[1].ev)

MutatingCalls ==
    {"filesLib.write", "filesLib.delete", "collection.replaceOne", "collection.deleteOne",
     "stateLib.delete"}

\* The value a durable read returned, as the client writes it to the fast tier.
ValueRead(event) ==
    IF client.kind = "file" THEN BufferToString(event.a[2]) ELSE JSON_stringify(event.a[2])

\* Event i of o is a fast-tier write of the value the durable read before it returned.
WritesValueRead(o, i) ==
    \E j \in Rets(o, DurableRead) :
       /\ j < i
       /\ o.ev[j].a[1] = "value"
       /\ o.ev[i].a[2] = ValueRead(o.ev[j])

C34_ReadsKeepDurableTier ==
    [][StepOfRead
       => /\ filesStore' = filesStore
          /\ dbStore' = dbStore
          /\ \A fn \in MutatingCalls : Calls(ops'[1], fn) = {}
          /\ Cardinality(Calls(ops'[1], "stateLib.put")) <= 1
          /\ \A i \in Calls(ops'[1], "stateLib.put") : WritesValueRead(ops'[1], i)
          /\ stateStore' # stateStore
             => /\ Applied("stateLib.put") = {1}
                /\ stateStore' = StatePut(client.encodedKey,
                                          LastCall(ops'[1], "stateLib.put").a[2],
                                          client.config.ttl)]_vars

\* A get() read a value from the durable tier and wrote it to the fast tier.
C34_Witness ==
    /\ cur.op = "get" /\ Completed(cur)
    /\ DurableReturnedValue(cur)
    /\ \E i \in Rets(cur, "stateLib.put") : cur.ev[i].a[1] = "ok"
    /\ cur.out.t = "return" /\ cur.out.v # <<>>
    /\ FastValues = {Serialized(cur.out.v[1])}
    /\ DurableHolds(cur.out.v[1])

(***************************************************************************)
(* C35: isolation between clients.  For clients configured with different  *)
(* keys (and, for document clients, different document identifiers), no    *)
(* call of put(), get(), exists() or delete() on one client changes what   *)
(* the stores hold for another, which is all that get() and exists() of    *)
(* the other read; a document client never returns the data of a client    *)
(* with another document identifier.                                       *)
(***************************************************************************)
\* What the stores hold outside the current client's key, path and document.
OthersCached(store) == {x \in store : x.key # client.encodedKey}

OthersFiles(store) == {x \in store : client.kind = "file" => x.path # client.filePath}

OthersDocuments(store) ==
    {x \in store : client.kind = "db"
                   => \/ x.coll # client.config.dbCollection
                      \/ FieldOf(x.doc, IdName) # client.config.dbDocumentId}

\* What get() returned, or what made exists() true, is held under the
\* client's own key, path or document identifier.
ReturnsOwnData ==
    /\ (cur.op = "get" /\ Completed(cur) /\ cur.out.t = "return" /\ cur.out.v # <<>>)
       => \/ Serialized(cur.out.v[1]) \in FastValues
          \/ DurableHolds(cur.out.v[1])
    /\ (cur.op = "exists" /\ Completed(cur) /\ cur.out.t = "return" /\ cur.out.v[1])
       => \/ stateStore # OthersCached(stateStore)
          \/ filesStore # OthersFiles(filesStore)
          \/ dbStore # OthersDocuments(dbStore)

\* The step belongs to a call of the current client.
StepOfCall == IsRunning(ops[1]) \/ IsRunning(ops'[1])

====
